---- MODULE Spec2Model ----
(***************************************************************************)
(* Model of the GitHub resource cache (GitHubCache), of the protocol       *)
(* resolver built on it (GitHubProtocol) and of the remote repository      *)
(* client they call (GitHubAdapter).                                       *)
(*                                                                         *)
(* Strings that the code concatenates or parses (owner, repo, branch,      *)
(* file path, identifiers) are sequences of one-character strings.         *)
(* Times are integers in milliseconds, as Date.now() gives them.           *)
(* A JavaScript value that is undefined, null or empty is the falsy value  *)
(* of its type: "" for a string (NoSha), 0 for a number (NoDate).          *)
(***************************************************************************)
EXTENDS Integers, Sequences, FiniteSets, TLC

VARIABLES
  enabled,      \* GitHubCache.enabled
  ttl,          \* GitHubCache.ttl, in seconds
  maxSize,      \* GitHubCache.maxSize
  memoryCache,  \* GitHubCache.memoryCache: cache key -> cache item
  disk,         \* the files of cacheDir: cache key -> [item, mtime]
  now,          \* the clock read by Date.now() and by the file system
  setLog,       \* history: the keys of the set calls made so far, in order,
                \* while nothing but set calls (and time) has happened
  onlySets,     \* history: no call other than set has been made yet
  lastCall,     \* history: the last call on the cache and what it returned
  calls,        \* the set calls in flight (interleaved execution)
  initialized,  \* GitHubProtocol.initialized
  remote,       \* the remote repository: <<branch, path>> -> revision (0: no file)
  lastResolve,  \* history: the last resolve call and what it did
  discConfig,   \* the configuration that GitHubDiscovery reads
  tree,         \* the remote repositories: repository key -> its files
  scans,        \* discoverRegistry's scans: repository key -> state of the scan
  registryData, \* GitHubDiscovery.registryData: the resources added, in order
  listCalls,    \* the calls that discovery has made to the adapter
  lastDiscover, \* history: the last discoverRegistry call and what it returned
  loadedConfig, \* GitHubConfigManager.config as GitHubDiscovery.initialize
                \* loaded it, Null before
  registries,   \* the RegistryData objects created, by reference
  tasks         \* the calls of GitHubDiscovery in flight

cacheVars == <<enabled, ttl, maxSize, memoryCache, disk, now>>
histVars == <<setLog, onlySets, lastCall>>
protoVars == <<initialized, remote, lastResolve>>
discVars == <<discConfig, tree, scans, registryData, listCalls, lastDiscover,
              loadedConfig, registries, tasks>>
vars == <<enabled, ttl, maxSize, memoryCache, disk, now, setLog, onlySets,
          lastCall, calls, initialized, remote, lastResolve, discConfig, tree,
          scans, registryData, listCalls, lastDiscover, loadedConfig,
          registries, tasks>>

----------------------------------------------------------------------------
(* Bounds of the model *)

T0 == 1000          \* the clock at the start
TickMs == 30000     \* the clock advances in steps of TickMs milliseconds
MaxTicks == 2       \* at most MaxTicks steps of the clock
MaxMaxSize == 2     \* maxSize is configured in 1..MaxMaxSize
MaxRev == 2         \* a remote file has at most MaxRev revisions
MaxSetLog == 3      \* setLog records at most MaxSetLog set calls
MaxFiles == 4       \* the adapter lists at most MaxFiles files
MaxListCalls == 2   \* discovery lists repositories at most MaxListCalls times
MaxTreeDepth == 7   \* a remote tree is at most MaxTreeDepth directories deep
MaxRestLen == 5     \* an identifier has at most MaxRestLen characters after its '@'
MaxTicksConc == 1   \* steps of the clock while set calls are interleaved
MaxIdLen == 7       \* an identifier that is parsed has at most MaxIdLen characters

----------------------------------------------------------------------------
(* Values *)

Null == [null |-> TRUE]     \* JavaScript null: no cache item, no commit
NoSha == ""
NoDate == 0

\* The empty Map / the empty directory
Empty == [k \in {} |-> Null]

Remove(f, ks) == [k \in (DOMAIN f) \ ks |-> f[k]]
Put(f, k, v) == [x \in (DOMAIN f) \cup {k} |-> IF x = k THEN v ELSE f[x]]

Range(s) == {s[i] : i \in DOMAIN s}

\* All enumerations, without repetition, of the finite set S
RECURSIVE Orders(_)
Orders(S) ==
  IF S = {} THEN {<<>>}
  ELSE UNION {{<<x>> \o o : o \in Orders(S \ {x})} : x \in S}

----------------------------------------------------------------------------
(* GitHubCache *)

\* cache.ttl of the configuration is at least 60 (seconds)
MinTtl == 60

\* `${owner}/${repo}@${branch}:${path}`, then md5: the digest is taken to be
\* injective, so the key is the string that is hashed.
_generateCacheKey(owner, repo, path, branch) ==
  owner \o <<"/">> \o repo \o <<"@">> \o branch \o <<":">> \o path

\* the content of a file that fs.readJSON cannot parse: reading it throws
Unreadable == [unreadable |-> TRUE]

\* if (!item || !item.expiresAt) return false; return Date.now() < item.expiresAt
_isValidCacheItem(item, t) ==
  IF item = Null \/ item.expiresAt = 0 THEN FALSE ELSE t < item.expiresAt

\* The cacheItem that set builds
CacheItem_noMetadata(owner, repo, filePath, branch, content, metadata, t) ==
  [owner |-> owner, repo |-> repo, filePath |-> filePath, branch |-> branch,
   content |-> content, metadata |-> [sha |-> NoSha, lastCommitDate |-> NoDate],
   cachedAt |-> t, expiresAt |-> t + (ttl * 1000),
   sha |-> metadata.sha, lastCommitDate |-> metadata.lastCommitDate]

CacheItem(owner, repo, filePath, branch, content, metadata, t) ==
  [owner |-> owner, repo |-> repo, filePath |-> filePath, branch |-> branch,
   content |-> content, metadata |-> metadata,
   cachedAt |-> t, expiresAt |-> t + (ttl * 1000),
   sha |-> metadata.sha, lastCommitDate |-> metadata.lastCommitDate]

\* get: the item returned (Null: absent) and the memory index and the files
\* it leaves.
get_keepExpired(mem, dsk, t, key) ==
  IF ~enabled THEN [res |-> Null, mem |-> mem, disk |-> dsk]
  ELSE IF key \in DOMAIN mem /\ _isValidCacheItem(mem[key], t)
       THEN [res |-> mem[key], mem |-> mem, disk |-> dsk]
  ELSE IF key \in DOMAIN dsk /\ _isValidCacheItem(dsk[key].item, t)
       THEN [res |-> dsk[key].item, mem |-> Put(mem, key, dsk[key].item),
             disk |-> dsk]
  ELSE [res |-> Null, mem |-> mem, disk |-> dsk]

get(mem, dsk, t, key) ==
  IF ~enabled THEN [res |-> Null, mem |-> mem, disk |-> dsk]
  ELSE IF key \in DOMAIN mem /\ _isValidCacheItem(mem[key], t)
       THEN [res |-> mem[key], mem |-> mem, disk |-> dsk]
  ELSE LET mem1 == Remove(mem, {key})      \* this.memoryCache.delete(cacheKey)
       IN  IF key \in DOMAIN dsk                    \* fs.pathExists
           THEN IF dsk[key].item = Unreadable      \* fs.readJSON throws: catch
                THEN [res |-> Null, mem |-> mem1, disk |-> dsk]
                ELSE IF _isValidCacheItem(dsk[key].item, t)
                THEN [res |-> dsk[key].item,
                      mem |-> Put(mem1, key, dsk[key].item), disk |-> dsk]
                ELSE [res |-> Null, mem |-> mem1,
                      disk |-> Remove(dsk, {key})]       \* fs.remove
           ELSE [res |-> Null, mem |-> mem1, disk |-> dsk]

\* fileInfos.sort((a, b) => a.mtime - b.mtime): a stable sort, by insertion
RECURSIVE InsertByMtime(_, _)
InsertByMtime(sorted, info) ==
  IF sorted = <<>> THEN <<info>>
  ELSE IF sorted[Len(sorted)].mtime <= info.mtime
       THEN Append(sorted, info)
       ELSE Append(InsertByMtime(SubSeq(sorted, 1, Len(sorted) - 1), info),
                   sorted[Len(sorted)])

RECURSIVE SortByMtime(_)
SortByMtime(fileInfos) ==
  IF fileInfos = <<>> THEN <<>>
  ELSE InsertByMtime(SortByMtime(SubSeq(fileInfos, 1, Len(fileInfos) - 1)),
                     fileInfos[Len(fileInfos)])

\* fileInfos.slice(0, fileInfos.length - this.maxSize) of the sorted list:
\* the files to delete, oldest first
ToDelete(fileInfos) ==
  LET sorted == SortByMtime(fileInfos)
  IN  [i \in 1..(Len(sorted) - maxSize) |-> sorted[i].file]

\* fs.stat of each file that fs.readdir listed
FileInfos(files, dsk) ==
  [i \in 1..Len(files) |-> [file |-> files[i], mtime |-> dsk[files[i]].mtime]]

\* _enforceMaxSize: the directories it can leave. fs.readdir lists the files
\* in an order the file system chooses.
_enforceMaxSize(dsk) ==
  IF Cardinality(DOMAIN dsk) <= maxSize THEN {dsk}
  ELSE {Remove(dsk, Range(ToDelete(FileInfos(files, dsk))))
          : files \in Orders(DOMAIN dsk)}

\* set: the memory indexes and directories it can leave
set(mem, dsk, t, owner, repo, filePath, branch, content, metadata) ==
  IF ~enabled THEN {[mem |-> mem, disk |-> dsk]}
  ELSE LET key == _generateCacheKey(owner, repo, filePath, branch)
           item == CacheItem(owner, repo, filePath, branch, content, metadata, t)
           mem1 == Put(mem, key, item)                        \* memoryCache.set
           dsk1 == Put(dsk, key, [item |-> item, mtime |-> t])   \* fs.writeJSON
       IN  {[mem |-> mem1, disk |-> d] : d \in _enforceMaxSize(dsk1)}

\* isValid: its result, and the memory index and the files its get leaves
isValid(mem, dsk, t, key, remoteMetadata) ==
  LET g == get(mem, dsk, t, key)
      cacheItem == g.res
      res == IF cacheItem = Null THEN FALSE
             ELSE IF remoteMetadata.sha # NoSha /\ cacheItem.sha # NoSha
                  THEN remoteMetadata.sha = cacheItem.sha
             ELSE IF remoteMetadata.lastCommitDate # NoDate
                     /\ cacheItem.lastCommitDate # NoDate
                  THEN remoteMetadata.lastCommitDate <= cacheItem.lastCommitDate
             ELSE _isValidCacheItem(cacheItem, t)
  IN  [res |-> res, mem |-> g.mem, disk |-> g.disk]

\* a variant whose inner catch leaves the file that could not be read
_cleanupExpiredCache_keepUnreadable(dsk, t) ==
  Remove(dsk, {k \in DOMAIN dsk : /\ dsk[k].item # Unreadable
                                  /\ ~_isValidCacheItem(dsk[k].item, t)})

\* _cleanupExpiredCache: every file that cannot be read (the inner catch) or
\* whose item is not valid is removed
_cleanupExpiredCache(dsk, t) ==
  Remove(dsk, {k \in DOMAIN dsk : \/ dsk[k].item = Unreadable
                                  \/ ~_isValidCacheItem(dsk[k].item, t)})

\* delete: the memory index and the files it leaves
delete(mem, dsk, key) ==
  IF ~enabled THEN [mem |-> mem, disk |-> dsk]
  ELSE [mem |-> Remove(mem, {key}), disk |-> Remove(dsk, {key})]

\* s.startsWith(prefix)
StartsWith(str, prefix) ==
  Len(str) >= Len(prefix) /\ SubSeq(str, 1, Len(prefix)) = prefix

\* `${item.owner}/${item.repo}@${item.branch}:${item.filePath}`
ItemKey(item) ==
  item.owner \o <<"/">> \o item.repo \o <<"@">> \o item.branch \o <<":">>
    \o item.filePath

\* branch ? `${owner}/${repo}@${branch}:` : `${owner}/${repo}@`
\* (no branch, null or '', is <<>>)
ClearPrefix(owner, repo, branch) ==
  IF branch # <<>> THEN owner \o <<"/">> \o repo \o <<"@">> \o branch \o <<":">>
  ELSE owner \o <<"/">> \o repo \o <<"@">>

clearRepository_everyBranch(mem, dsk, owner, repo, branch) ==
  IF ~enabled THEN [mem |-> mem, disk |-> dsk]
  ELSE LET prefix == ClearPrefix(owner, repo, <<>>)
       IN  [mem |-> Remove(mem, {k \in DOMAIN mem :
                                   StartsWith(ItemKey(mem[k]), prefix)}),
            disk |-> Remove(dsk, {k \in DOMAIN dsk :
                                    StartsWith(ItemKey(dsk[k].item), prefix)})]

\* clearRepository: the memory index and the files it leaves
clearRepository(mem, dsk, owner, repo, branch) ==
  IF ~enabled THEN [mem |-> mem, disk |-> dsk]
  ELSE LET prefix == ClearPrefix(owner, repo, branch)
       IN  [mem |-> Remove(mem, {k \in DOMAIN mem :
                                   StartsWith(ItemKey(mem[k]), prefix)}),
            disk |-> Remove(dsk, {k \in DOMAIN dsk :
                                    StartsWith(ItemKey(dsk[k].item), prefix)})]

----------------------------------------------------------------------------
(* GitHubCache when calls of the file system fail. During one call of the
   cache every file system call of one kind (fault) throws; "none": no call
   throws. fs.pathExists never throws. *)

IoFaults == {"none", "read", "write", "remove", "readdir", "stat"}

\* a variant in which the catch blocks throw the error again
Swallowed_rethrow(threw) == threw

\* catch (error) { logger.warn(...) }: whether the call raises when its try
\* block has thrown or not
Swallowed(threw) == FALSE

\* get: fs.readJSON of the file can throw, and fs.remove of an expired file
getIO(mem, dsk, t, key, fault) ==
  LET g == get(mem, dsk, t, key)
      threw == /\ enabled
               /\ ~(key \in DOMAIN mem /\ _isValidCacheItem(mem[key], t))
               /\ key \in DOMAIN dsk
               /\ \/ fault = "read"
                  \/ fault = "remove" /\ ~_isValidCacheItem(dsk[key].item, t)
  IN  IF threw
      THEN [res |-> Null, failed |-> TRUE, raised |-> Swallowed(TRUE),
            mem |-> Remove(mem, {key}), disk |-> dsk]
      ELSE [res |-> g.res, failed |-> FALSE, raised |-> Swallowed(FALSE),
            mem |-> g.mem, disk |-> g.disk]

\* set: fs.writeJSON can throw, after the memory index was written; in
\* _enforceMaxSize fs.readdir can throw, and fs.stat and fs.remove once there
\* are more files than maxSize
setIO(mem, dsk, t, owner, repo, filePath, branch, content, metadata, fault) ==
  LET key == _generateCacheKey(owner, repo, filePath, branch)
      item == CacheItem(owner, repo, filePath, branch, content, metadata, t)
      mem1 == Put(mem, key, item)
      dsk1 == Put(dsk, key, [item |-> item, mtime |-> t])
  IN  IF ~enabled
      THEN {[failed |-> FALSE, raised |-> FALSE, mem |-> mem, disk |-> dsk]}
      ELSE IF fault = "write"
      THEN {[failed |-> TRUE, raised |-> Swallowed(TRUE), mem |-> mem1, disk |-> dsk]}
      ELSE IF \/ fault = "readdir"
              \/ /\ fault \in {"stat", "remove"}
                 /\ Cardinality(DOMAIN dsk1) > maxSize
      THEN {[failed |-> TRUE, raised |-> Swallowed(TRUE), mem |-> mem1, disk |-> dsk1]}
      ELSE {[failed |-> FALSE, raised |-> Swallowed(FALSE), mem |-> st.mem,
             disk |-> st.disk]
              : st \in set(mem, dsk, t, owner, repo, filePath, branch, content,
                           metadata)}

\* delete: fs.remove can throw, after the memory index was changed
deleteIO(mem, dsk, key, fault) ==
  IF enabled /\ fault = "remove"
  THEN [failed |-> TRUE, raised |-> Swallowed(TRUE),
        mem |-> Remove(mem, {key}), disk |-> dsk]
  ELSE [failed |-> FALSE, raised |-> Swallowed(FALSE),
        mem |-> delete(mem, dsk, key).mem, disk |-> delete(mem, dsk, key).disk]

\* clearRepository: fs.readdir can throw; when fs.readJSON throws the file is
\* removed as damaged; fs.remove of the first file found to match can throw
clearRepositoryIO(mem, dsk, owner, repo, branch, fault) ==
  LET st == clearRepository(mem, dsk, owner, repo, branch)
      matching == {k \in DOMAIN dsk :
                     StartsWith(ItemKey(dsk[k].item), ClearPrefix(owner, repo, branch))}
  IN  IF ~enabled \/ dsk = Empty
      THEN [failed |-> FALSE, raised |-> FALSE, mem |-> st.mem, disk |-> st.disk]
      ELSE IF fault = "readdir" \/ (fault = "remove" /\ matching # {})
      THEN [failed |-> TRUE, raised |-> Swallowed(TRUE), mem |-> st.mem, disk |-> dsk]
      ELSE IF fault = "read"
      THEN [failed |-> TRUE, raised |-> Swallowed(TRUE), mem |-> st.mem, disk |-> Empty]
      ELSE [failed |-> FALSE, raised |-> Swallowed(FALSE), mem |-> st.mem,
            disk |-> st.disk]

\* clear: fs.emptyDir can throw (it lists the directory and removes what it
\* holds), after the memory index was cleared
clearIO(mem, dsk, fault) ==
  IF ~enabled
  THEN [failed |-> FALSE, raised |-> FALSE, mem |-> mem, disk |-> dsk]
  ELSE IF fault = "readdir" \/ (fault = "remove" /\ dsk # Empty)
  THEN [failed |-> TRUE, raised |-> Swallowed(TRUE), mem |-> Empty, disk |-> dsk]
  ELSE [failed |-> FALSE, raised |-> Swallowed(FALSE), mem |-> Empty, disk |-> Empty]

----------------------------------------------------------------------------
(* The callers of the cache: inputs *)

CacheIds ==
  {[owner |-> <<"o">>, repo |-> <<"r">>, filePath |-> p, branch |-> <<"m">>]
     : p \in {<<"a">>, <<"b">>}}

KeyOf(id) == _generateCacheKey(id.owner, id.repo, id.filePath, id.branch)

SetInputs ==
  {[content |-> "c1", metadata |-> [sha |-> "sha-A", lastCommitDate |-> 2]],
   [content |-> "c2", metadata |-> [sha |-> NoSha, lastCommitDate |-> 2]],
   [content |-> "c3", metadata |-> [sha |-> NoSha, lastCommitDate |-> NoDate]]}

\* the remote metadata that the callers of isValid pass in the runs explored
CallRemoteMetadatas ==
  {[sha |-> "sha-A", lastCommitDate |-> NoDate],
   [sha |-> "sha-B", lastCommitDate |-> NoDate],
   [sha |-> NoSha, lastCommitDate |-> 3],
   [sha |-> NoSha, lastCommitDate |-> 2],
   [sha |-> NoSha, lastCommitDate |-> NoDate]}

NoCall == [op |-> "none"]
NoCalls == [c \in {} |-> Null]

----------------------------------------------------------------------------
(* Sequential use of the cache: every call runs to completion *)

InitCache ==
  /\ enabled \in BOOLEAN
  /\ ttl = MinTtl
  /\ maxSize \in 1..MaxMaxSize
  /\ memoryCache = Empty
  /\ disk = Empty
  /\ now = T0
  /\ setLog = <<>>
  /\ onlySets = TRUE
  /\ lastCall = NoCall

\* GitHubDiscovery after construction, with _getDefaultConfig's configuration
InitDiscovery ==
  /\ discConfig = [enabled |-> FALSE, repositories |-> <<>>]
  /\ tree = Empty
  /\ scans = Empty
  /\ registryData = Null
  /\ listCalls = 0
  /\ lastDiscover = NoCall
  /\ loadedConfig = Null
  /\ registries = <<>>
  /\ tasks = Empty

InitRest ==
  /\ calls = NoCalls
  /\ initialized = FALSE
  /\ remote = Empty
  /\ lastResolve = NoCall
  /\ InitDiscovery

Init == InitCache /\ InitRest

NotOnlySets == setLog' = <<>> /\ onlySets' = FALSE

StoredKeys == DOMAIN memoryCache \cup DOMAIN disk

\* the entry the cache holds for a key: the memory index first, as get reads
StoredItem(key) ==
  IF key \in DOMAIN memoryCache THEN memoryCache[key] ELSE disk[key].item

\* the cache holds an entry for the key and its time to live has elapsed
HoldsExpired(key) ==
  /\ enabled
  /\ key \in StoredKeys
  /\ now >= StoredItem(key).expiresAt

\* the clock advances
Tick ==
  /\ now < T0 + (MaxTicks * TickMs)
  /\ now' = now + TickMs
  /\ lastCall' = [op |-> "tick"]
  /\ UNCHANGED <<enabled, ttl, maxSize, memoryCache, disk, setLog, onlySets,
                 calls, protoVars, discVars>>

SetCall(id, inp) ==
  /\ \E out \in set(memoryCache, disk, now, id.owner, id.repo, id.filePath,
                    id.branch, inp.content, inp.metadata) :
        /\ memoryCache' = out.mem
        /\ disk' = out.disk
  /\ IF onlySets /\ Len(setLog) < MaxSetLog
     THEN setLog' = Append(setLog, KeyOf(id)) /\ onlySets' = TRUE
     ELSE NotOnlySets
  /\ lastCall' = [op |-> "set", id |-> id, key |-> KeyOf(id), inp |-> inp]
  /\ UNCHANGED <<enabled, ttl, maxSize, now, calls, protoVars, discVars>>

GetCall(id) ==
  LET g == get(memoryCache, disk, now, KeyOf(id))
  IN  /\ memoryCache' = g.mem
      /\ disk' = g.disk
      /\ lastCall' = [op |-> "get", key |-> KeyOf(id), res |-> g.res,
                      expired |-> HoldsExpired(KeyOf(id))]
      /\ NotOnlySets
      /\ UNCHANGED <<enabled, ttl, maxSize, now, calls, protoVars, discVars>>

IsValidCall(id, remoteMetadata) ==
  LET v == isValid(memoryCache, disk, now, KeyOf(id), remoteMetadata)
  IN  /\ memoryCache' = v.mem
      /\ disk' = v.disk
      /\ lastCall' = [op |-> "isValid", key |-> KeyOf(id),
                      remoteMetadata |-> remoteMetadata, res |-> v.res,
                      held |-> IF enabled /\ KeyOf(id) \in StoredKeys
                               THEN StoredItem(KeyOf(id)) ELSE Null,
                      at |-> now]
      /\ NotOnlySets
      /\ UNCHANGED <<enabled, ttl, maxSize, now, calls, protoVars, discVars>>

\* a new GitHubCache over the same cacheDir (a restart of the program)
Restart ==
  /\ memoryCache' = Empty
  /\ lastCall' = [op |-> "constructor"]
  /\ NotOnlySets
  /\ UNCHANGED <<enabled, ttl, maxSize, disk, now, calls, protoVars, discVars>>

\* GitHubCache.initialize
Initialize ==
  /\ disk' = IF enabled THEN _cleanupExpiredCache(disk, now) ELSE disk
  /\ lastCall' = [op |-> "initialize"]
  /\ NotOnlySets
  /\ UNCHANGED <<enabled, ttl, maxSize, memoryCache, now, calls, protoVars, discVars>>

Next ==
  \/ Tick
  \/ \E id \in CacheIds, inp \in SetInputs : SetCall(id, inp)
  \/ \E id \in CacheIds : GetCall(id)
  \/ \E id \in CacheIds, rm \in CallRemoteMetadatas : IsValidCall(id, rm)
  \/ Restart
  \/ Initialize

Spec == Init /\ [][Next]_vars

----------------------------------------------------------------------------
(* Concurrent set calls: a call runs up to its next await, then any call   *)
(* in flight may continue.                                                 *)

Callers == {"s1", "s2"}

ConcIds ==
  {[owner |-> <<"o">>, repo |-> <<"r">>, filePath |-> p, branch |-> <<"m">>]
     : p \in {<<"a">>, <<"b">>, <<"c">>}}

ConcInput == [content |-> "c1", metadata |-> [sha |-> "sha-A", lastCommitDate |-> 2]]

Idle == [pc |-> "idle"]

InitConc ==
  /\ InitCache
  /\ calls = [c \in Callers |-> Idle]
  /\ initialized = FALSE
  /\ remote = Empty
  /\ lastResolve = NoCall
  /\ InitDiscovery

ConcUnchanged == UNCHANGED <<enabled, ttl, maxSize, histVars, protoVars, discVars>>

TickConc ==
  /\ now < T0 + (MaxTicksConc * TickMs)
  /\ now' = now + TickMs
  /\ UNCHANGED <<memoryCache, disk, calls>>
  /\ ConcUnchanged

\* set, up to await fs.writeJSON: the item is built and put in the memory index
SetBegin(c, id) ==
  /\ calls[c].pc = "idle"
  /\ LET item == CacheItem(id.owner, id.repo, id.filePath, id.branch,
                           ConcInput.content, ConcInput.metadata, now)
     IN  IF ~enabled THEN UNCHANGED <<memoryCache, calls>>
         ELSE /\ memoryCache' = Put(memoryCache, KeyOf(id), item)
              /\ calls' = [calls EXCEPT ![c] =
                     [pc |-> "writeJSON", key |-> KeyOf(id), item |-> item]]
  /\ UNCHANGED <<disk, now>>
  /\ ConcUnchanged

\* fs.writeJSON completes; _enforceMaxSize starts (fs.pathExists(cacheDir) holds)
SetWriteJSON(c) ==
  /\ calls[c].pc = "writeJSON"
  /\ disk' = Put(disk, calls[c].key, [item |-> calls[c].item, mtime |-> now])
  /\ calls' = [calls EXCEPT ![c] = [pc |-> "readdir"]]
  /\ UNCHANGED <<memoryCache, now>>
  /\ ConcUnchanged

\* fs.readdir completes: the listing, and the early return when it is small
SetReaddir(c) ==
  /\ calls[c].pc = "readdir"
  /\ \E files \in Orders(DOMAIN disk) :
       calls' = [calls EXCEPT ![c] =
                   IF Len(files) <= maxSize THEN Idle
                   ELSE [pc |-> "stat", files |-> files, fileInfos |-> <<>>]]
  /\ UNCHANGED <<memoryCache, disk, now>>
  /\ ConcUnchanged

\* fs.stat of the next listed file completes; it throws when the file is gone,
\* and _enforceMaxSize then logs the error and returns. After the last one
\* the list is sorted and sliced.
SetStat(c) ==
  /\ calls[c].pc = "stat"
  /\ LET file == calls[c].files[Len(calls[c].fileInfos) + 1]
         infos == Append(calls[c].fileInfos,
                         [file |-> file, mtime |-> disk[file].mtime])
     IN  calls' = [calls EXCEPT ![c] =
           IF file \notin DOMAIN disk THEN Idle
           ELSE IF Len(infos) < Len(calls[c].files)
                THEN [pc |-> "stat", files |-> calls[c].files, fileInfos |-> infos]
                ELSE [pc |-> "remove", toDelete |-> ToDelete(infos)]]
  /\ UNCHANGED <<memoryCache, disk, now>>
  /\ ConcUnchanged

\* fs.remove of the next file to delete completes (no error when it is gone)
SetRemove(c) ==
  /\ calls[c].pc = "remove"
  /\ disk' = Remove(disk, {Head(calls[c].toDelete)})
  /\ calls' = [calls EXCEPT ![c] =
                 IF Len(calls[c].toDelete) = 1 THEN Idle
                 ELSE [pc |-> "remove", toDelete |-> Tail(calls[c].toDelete)]]
  /\ UNCHANGED <<memoryCache, now>>
  /\ ConcUnchanged

NextConc ==
  \/ TickConc
  \/ \E c \in Callers, id \in ConcIds : SetBegin(c, id)
  \/ \E c \in Callers : SetWriteJSON(c)
  \/ \E c \in Callers : SetReaddir(c)
  \/ \E c \in Callers : SetStat(c)
  \/ \E c \in Callers : SetRemove(c)

ConcSpec == InitConc /\ [][NextConc]_vars

AllSetsCompleted == \A c \in Callers : calls[c].pc = "idle"

----------------------------------------------------------------------------
(* Strings *)

\* s.indexOf(ch): the first position of ch in s, 0 when there is none
\* (positions count from 1)
RECURSIVE IndexFrom(_, _, _)
IndexFrom(s, ch, i) ==
  IF i > Len(s) THEN 0 ELSE IF s[i] = ch THEN i ELSE IndexFrom(s, ch, i + 1)

IndexOf(s, ch) == IndexFrom(s, ch, 1)

\* s.split(ch)
RECURSIVE Split(_, _)
Split(s, ch) ==
  LET i == IndexOf(s, ch)
  IN  IF i = 0 THEN <<s>>
      ELSE <<SubSeq(s, 1, i - 1)>> \o Split(SubSeq(s, i + 1, Len(s)), ch)

\* parts.join(ch)
RECURSIVE Join(_, _)
Join(parts, ch) ==
  IF parts = <<>> THEN <<>>
  ELSE IF Len(parts) = 1 THEN parts[1]
  ELSE parts[1] \o <<ch>> \o Join(Tail(parts), ch)

ProtocolPrefix == <<"@", "g", "i", "t", "h", "u", "b", ":", "/", "/">>

\* s.replace(/^@github:\/\//, '')
StripProtocol(s) ==
  IF Len(s) >= Len(ProtocolPrefix) /\ SubSeq(s, 1, Len(ProtocolPrefix)) = ProtocolPrefix
  THEN SubSeq(s, Len(ProtocolPrefix) + 1, Len(s))
  ELSE s

Main == <<"m", "a", "i", "n">>

----------------------------------------------------------------------------
(* GitHubConfigManager *)

\* config.repositories, after validation (branch defaults to 'main',
\* enabled to true)
Repositories ==
  << [owner |-> <<"o">>, name |-> <<"r">>, branch |-> <<"d">>, enabled |-> TRUE],
     [owner |-> <<"o">>, name |-> <<"q">>, branch |-> Main, enabled |-> FALSE] >>

getRepositoryConfig(repoKey) ==
  LET found == {i \in DOMAIN Repositories :
                  Repositories[i].owner \o <<"/">> \o Repositories[i].name = repoKey}
  IN  IF found = {} THEN Null
      ELSE Repositories[CHOOSE i \in found : \A j \in found : i <= j]

----------------------------------------------------------------------------
(* GitHubAdapter: the remote repository *)

RemoteFiles == {<<<<"d">>, <<"a">>>>, <<<<"m">>, <<"b">>>>}

\* the files that receive commits while the program runs
ChangingFiles == {<<<<"d">>, <<"a">>>>}

\* what revision n of a file holds
RevContents == <<"v1", "v2", "v3", "v4">>
RevShas == <<"sha-1", "sha-2", "sha-3", "sha-4">>
RevDate(n) == n

Rev(branch, path) ==
  IF <<branch, path>> \in DOMAIN remote THEN remote[<<branch, path>>] ELSE 0

\* Errors: code, HTTP status (0: none) and the words of the message
NotFound == [code |-> "", status |-> 404, message |-> <<"Not", "Found">>]

\* thrown by getFileContent when the path is a directory
NotAFile == [code |-> "", status |-> 0, message |-> <<"path", "is", "not", "a", "file">>]

FetchFaults ==
  {[code |-> "ECONNRESET", status |-> 0, message |-> <<"socket", "hang", "up">>],
   [code |-> "", status |-> 0, message |-> <<"network", "unreachable">>],
   [code |-> "", status |-> 0, message |-> <<"request", "timeout">>],
   [code |-> "", status |-> 503, message |-> <<"Service", "Unavailable">>],
   [code |-> "", status |-> 403, message |-> <<"Forbidden">>]}

\* getFileContent: what it returns (ok) or throws; a 404 also for a file
\* that has commits (it was deleted, or is a directory's sibling)
getFileContent(branch, path) ==
  LET n == Rev(branch, path)
  IN  (IF path = <<>> THEN {[ok |-> FALSE, error |-> NotAFile]}
       ELSE IF n = 0 THEN {}
       ELSE {[ok |-> TRUE, content |-> RevContents[n],
              metadata |-> [sha |-> RevShas[n]]]})
      \cup {[ok |-> FALSE, error |-> e] : e \in {NotFound} \cup FetchFaults}

\* getFileLastCommit: the last commit, or null when there is none or when
\* the request fails (the error is logged, not thrown)
getFileLastCommit(branch, path) ==
  LET n == Rev(branch, path)
  IN  (IF n = 0 THEN {} ELSE {[sha |-> RevShas[n], date |-> RevDate(n)]})
      \cup {Null}

\* lastCommit?.date
DateOf(lastCommit) == IF lastCommit = Null THEN NoDate ELSE lastCommit.date

----------------------------------------------------------------------------
(* GitHubProtocol *)

Includes(message, word) == \E i \in DOMAIN message : message[i] = word

_isNetworkError_any(error) == TRUE

_isNetworkError(error) ==
  \/ error.code \in {"ENOTFOUND", "ECONNREFUSED", "ETIMEDOUT", "ECONNRESET"}
  \/ Includes(error.message, "network")
  \/ Includes(error.message, "timeout")
  \/ error.status >= 500

\* parseGitHubPath: ok is false when it throws; an unset branch is <<>>
parseGitHubPath(path) ==
  LET cleanPath == StripProtocol(path)
      Bad == [ok |-> FALSE]
  IN  IF IndexOf(cleanPath, "@") # 0
      THEN LET atIndex == IndexOf(cleanPath, "@")
               beforeAt == SubSeq(cleanPath, 1, atIndex - 1)
               afterAt == SubSeq(cleanPath, atIndex + 1, Len(cleanPath))
               names == Split(beforeAt, "/")
               ownerName == names[1]
               repoName == IF Len(names) >= 2 THEN names[2] ELSE <<>>
               slashIndex == IndexOf(afterAt, "/")
               branch == IF slashIndex = 0 THEN afterAt
                         ELSE SubSeq(afterAt, 1, slashIndex - 1)
               filePath == IF slashIndex = 0 THEN <<>>
                           ELSE SubSeq(afterAt, slashIndex + 1, Len(afterAt))
           IN  IF ownerName = <<>> \/ repoName = <<>> \/ branch = <<>> THEN Bad
               ELSE [ok |-> TRUE, owner |-> ownerName, repo |-> repoName,
                     branch |-> branch, filePath |-> filePath,
                     repoKey |-> ownerName \o <<"/">> \o repoName]
      ELSE LET parts == Split(cleanPath, "/")
           IN  IF Len(parts) < 3 THEN Bad
               ELSE [ok |-> TRUE, owner |-> parts[1], repo |-> parts[2],
                     branch |-> <<>>,
                     filePath |-> Join(SubSeq(parts, 3, Len(parts)), "/"),
                     repoKey |-> parts[1] \o <<"/">> \o parts[2]]

\* the adapter: options.branch || repoConfig.branch || 'main'
AdapterBranch(optionsBranch, repoConfig) ==
  IF optionsBranch # <<>> THEN optionsBranch
  ELSE IF repoConfig.branch # <<>> THEN repoConfig.branch
  ELSE Main

TargetBranch_configFirst(branch, repoConfig) ==
  IF repoConfig.branch # <<>> THEN repoConfig.branch
  ELSE IF branch # <<>> THEN branch
  ELSE Main

\* branch || repoConfig.branch || 'main'
TargetBranch(branch, repoConfig) ==
  IF branch # <<>> THEN branch
  ELSE IF repoConfig.branch # <<>> THEN repoConfig.branch
  ELSE Main

\* parseUrl: as parseGitHubPath, but the branch starts as 'main'
parseUrl(url) ==
  LET urlWithoutProtocol == StripProtocol(url)
      Bad == [ok |-> FALSE]
  IN  IF IndexOf(urlWithoutProtocol, "@") # 0
      THEN LET atIndex == IndexOf(urlWithoutProtocol, "@")
               beforeAt == SubSeq(urlWithoutProtocol, 1, atIndex - 1)
               afterAt == SubSeq(urlWithoutProtocol, atIndex + 1,
                                 Len(urlWithoutProtocol))
               names == Split(beforeAt, "/")
               ownerName == names[1]
               repoName == IF Len(names) >= 2 THEN names[2] ELSE <<>>
               slashIndex == IndexOf(afterAt, "/")
               branch == IF slashIndex = 0 THEN afterAt
                         ELSE SubSeq(afterAt, 1, slashIndex - 1)
               filePath == IF slashIndex = 0 THEN <<>>
                           ELSE SubSeq(afterAt, slashIndex + 1, Len(afterAt))
           IN  IF ownerName = <<>> \/ repoName = <<>> \/ branch = <<>> THEN Bad
               ELSE [ok |-> TRUE, owner |-> ownerName, repo |-> repoName,
                     branch |-> branch, filePath |-> filePath,
                     repoKey |-> ownerName \o <<"/">> \o repoName]
      ELSE LET parts == Split(urlWithoutProtocol, "/")
           IN  IF Len(parts) < 3 THEN Bad
               ELSE [ok |-> TRUE, owner |-> parts[1], repo |-> parts[2],
                     branch |-> Main,
                     filePath |-> Join(SubSeq(parts, 3, Len(parts)), "/"),
                     repoKey |-> parts[1] \o <<"/">> \o parts[2]]

\* Errors thrown before the try block of resolve
InvalidIdentifier == [code |-> "", status |-> 0, message |-> <<"invalid", "path", "format">>]
UnknownRepository == [code |-> "", status |-> 0, message |-> <<"repository", "not", "configured">>]
RepositoryDisabled == [code |-> "", status |-> 0, message |-> <<"repository", "disabled">>]

Raised(error, st) ==
  [kind |-> "raised", via |-> "config", error |-> error, content |-> "",
   cached |-> FALSE, valid |-> FALSE, fetchError |-> Null, fetched |-> Null,
   commitCalls |-> 0, contentCalls |-> 0, remoteBranches |-> {},
   mem |-> st.mem, disk |-> st.disk]

\* GitHubProtocol.initialize, on the first call: a new GitHubCache (an empty
\* memory index) is made and initialized
ProtocolInitialize(mem, dsk, t) ==
  IF initialized THEN [mem |-> mem, disk |-> dsk]
  ELSE [mem |-> Empty,
        disk |-> IF enabled THEN _cleanupExpiredCache(dsk, t) ELSE dsk]

\* resolve, the cache check: cachedItem = get(...); if there is one, the last
\* commit is fetched and isValid decides (lastCommit: what getFileLastCommit
\* gives if called)
resolveCacheCheck_noRemoteCall(st, t, key, lastCommit) ==
  LET g == get(st.mem, st.disk, t, key)
  IN  [cached |-> g.res # Null, valid |-> g.res # Null,
       content |-> IF g.res = Null THEN "" ELSE g.res.content,
       commitCalls |-> 0, mem |-> g.mem, disk |-> g.disk]

resolveCacheCheck(st, t, key, lastCommit) ==
  LET g == get(st.mem, st.disk, t, key)
      remoteMetadata == [sha |-> NoSha, lastCommitDate |-> DateOf(lastCommit)]
      v == isValid(g.mem, g.disk, t, key, remoteMetadata)
  IN  IF g.res = Null
      THEN [cached |-> FALSE, valid |-> FALSE, content |-> "", commitCalls |-> 0,
            mem |-> g.mem, disk |-> g.disk]
      ELSE [cached |-> TRUE, valid |-> v.res, content |-> g.res.content,
            commitCalls |-> 1, mem |-> v.mem, disk |-> v.disk]

\* resolve, the fetch: the content was fetched (result), the last commit is
\* fetched again, both are merged into the metadata and written with set
resolveFetch_noSet(st, t, p, targetBranch, result, lastCommit) ==
  {[mem |-> st.mem, disk |-> st.disk]}

resolveFetch(st, t, p, targetBranch, result, lastCommit) ==
  LET metadata == [sha |-> result.metadata.sha,
                   lastCommitDate |-> DateOf(lastCommit)]
  IN  set(st.mem, st.disk, t, p.owner, p.repo, p.filePath, targetBranch,
          result.content, metadata)

\* resolve, the catch block: on a network error the cache is read again
resolveCatch(st, t, key, error) ==
  LET g == get(st.mem, st.disk, t, key)
  IN  IF _isNetworkError(error)
      THEN [returned |-> g.res # Null,
            content |-> IF g.res = Null THEN "" ELSE g.res.content,
            mem |-> g.mem, disk |-> g.disk]
      ELSE [returned |-> FALSE, content |-> "", mem |-> st.mem, disk |-> st.disk]

\* resolve and loadContent after the identifier was parsed into p (the two
\* bodies are the same text): everything they can do, by what the remote
\* calls answer
resolveParsed(mem, dsk, t, p) ==
  LET st0 == ProtocolInitialize(mem, dsk, t)
  IN
  IF ~p.ok THEN {Raised(InvalidIdentifier, st0)}
  ELSE
  LET repoConfig == getRepositoryConfig(p.repoKey)
  IN
  IF repoConfig = Null THEN {Raised(UnknownRepository, st0)}
  ELSE IF ~repoConfig.enabled THEN {Raised(RepositoryDisabled, st0)}
  ELSE
  LET targetBranch == TargetBranch(p.branch, repoConfig)
      key == _generateCacheKey(p.owner, p.repo, p.filePath, targetBranch)
      Out(kind, via, content, error, chk, fetchError, fetched, nCommit, nContent, st) ==
        [kind |-> kind, via |-> via, error |-> error, content |-> content,
         cached |-> chk.cached, valid |-> chk.valid,
         fetchError |-> fetchError, fetched |-> fetched,
         commitCalls |-> nCommit, contentCalls |-> nContent,
         remoteBranches |-> IF nCommit + nContent = 0 THEN {}
                            ELSE {AdapterBranch(targetBranch, repoConfig)},
         mem |-> st.mem, disk |-> st.disk]
  IN
  UNION {
    LET chk == resolveCacheCheck(st0, t, key, c1)
    IN  IF chk.cached /\ chk.valid
        THEN {Out("returned", "hit", chk.content, Null, chk, Null, Null,
                  chk.commitCalls, 0, chk)}
        ELSE UNION {
          IF ~result.ok
          THEN LET c == resolveCatch(chk, t, key, result.error)
               IN  {IF c.returned
                    THEN Out("returned", "fallback", c.content, Null, chk,
                             result.error, Null, chk.commitCalls, 1, c)
                    ELSE Out("raised", "fetch", "", result.error, chk,
                             result.error, Null, chk.commitCalls, 1, c)}
          ELSE UNION {
                 {Out("returned", "fetched", result.content, Null, chk, Null,
                      [content |-> result.content, sha |-> result.metadata.sha,
                       lastCommitDate |-> DateOf(c2)],
                      chk.commitCalls + 1, 1, st)
                    : st \in resolveFetch(chk, t, p, targetBranch, result, c2)}
                 : c2 \in getFileLastCommit(AdapterBranch(targetBranch, repoConfig), p.filePath)}
          : result \in getFileContent(AdapterBranch(targetBranch, repoConfig), p.filePath)}
    : c1 \in getFileLastCommit(AdapterBranch(targetBranch, repoConfig), p.filePath)}

\* resolve: the path is parsed by parseGitHubPath
resolve(mem, dsk, t, path) == resolveParsed(mem, dsk, t, parseGitHubPath(path))

\* loadContent: the url is parsed by parseUrl
loadContent(mem, dsk, t, url) == resolveParsed(mem, dsk, t, parseUrl(url))

\* thrown by this.githubCache.delete while githubCache is null
NoCache == [code |-> "", status |-> 0, message |-> <<"githubCache", "is", "null">>]

\* refreshCache: the entry of parseUrl's owner, repo, file path and branch
\* is deleted; initialize is not called
refreshCache(mem, dsk, url) ==
  LET p == parseUrl(url)
  IN  IF ~p.ok THEN [error |-> InvalidIdentifier, mem |-> mem, disk |-> dsk]
      ELSE IF ~initialized THEN [error |-> NoCache, mem |-> mem, disk |-> dsk]
      ELSE LET d == delete(mem, dsk,
                           _generateCacheKey(p.owner, p.repo, p.filePath, p.branch))
           IN  [error |-> Null, mem |-> d.mem, disk |-> d.disk]

\* the cache key that resolve(path) uses; <<>> when it has none
ResolveKey(path) ==
  LET p == parseGitHubPath(path)
  IN  IF ~p.ok THEN <<>>
      ELSE LET repoConfig == getRepositoryConfig(p.repoKey)
           IN  IF repoConfig = Null THEN <<>>
               ELSE _generateCacheKey(p.owner, p.repo, p.filePath,
                                      TargetBranch(p.branch, repoConfig))

----------------------------------------------------------------------------
(* The callers of the resolver *)

Identifiers ==
  {<<"o", "/", "r", "/", "a">>,
   <<"o", "/", "r", "@", "m", "/", "b">>,
   <<"o", "/", "r">>,
   <<"o", "/", "r", "@", "d">>,
   <<"o", "/", "q", "/", "a">>,
   <<"x", "/", "r", "/", "a">>}

InitResolve ==
  /\ InitCache
  /\ maxSize \in {1, MaxMaxSize}
  /\ calls = NoCalls
  /\ initialized = FALSE
  /\ remote = [f \in RemoteFiles |-> 1]
  /\ lastResolve = NoCall
  /\ InitDiscovery

ResolveUnchanged == UNCHANGED <<enabled, ttl, maxSize, histVars, calls, discVars>>

TickResolve ==
  /\ now < T0 + (MaxTicks * TickMs)
  /\ now' = now + TickMs
  /\ lastResolve' = NoCall
  /\ UNCHANGED <<memoryCache, disk, initialized, remote>>
  /\ ResolveUnchanged

\* a commit on the remote repository changes (or creates) the file
RemoteUpdate(f) ==
  /\ remote[f] < MaxRev
  /\ remote' = [remote EXCEPT ![f] = @ + 1]
  /\ lastResolve' = NoCall
  /\ UNCHANGED <<memoryCache, disk, initialized, now>>
  /\ ResolveUnchanged

\* a new GitHubProtocol (a restart of the program)
RestartProtocol ==
  /\ initialized
  /\ initialized' = FALSE
  /\ memoryCache' = Empty
  /\ lastResolve' = NoCall
  /\ UNCHANGED <<disk, remote, now>>
  /\ ResolveUnchanged

\* the keys whose entry in the memory index or among the files is not the
\* one stored before
Written(mem0, dsk0, mem1, dsk1) ==
  {k \in DOMAIN mem1 :
     IF initialized /\ k \in DOMAIN mem0 THEN mem1[k] # mem0[k]
     ELSE IF k \in DOMAIN dsk0 THEN mem1[k] # dsk0[k].item
     ELSE TRUE}
  \cup {k \in DOMAIN dsk1 : k \notin DOMAIN dsk0 \/ dsk1[k] # dsk0[k]}

Resolve(path) ==
  LET key == ResolveKey(path)
      inMemory == initialized /\ key \in DOMAIN memoryCache
      held == IF ~enabled THEN Null
              ELSE IF inMemory THEN memoryCache[key]
              ELSE IF key \in DOMAIN disk THEN disk[key].item
              ELSE Null
  IN
  /\ \E out \in resolve(memoryCache, disk, now, path) :
       /\ memoryCache' = out.mem
       /\ disk' = out.disk
       /\ lastResolve' =
            [op |-> "resolve", path |-> path, key |-> key, held |-> held,
             afterRefresh |-> /\ lastResolve.op = "refreshCache"
                              /\ lastResolve.path = path
                              /\ lastResolve.error = Null,
             wrote |-> Written(memoryCache, disk, out.mem, out.disk),
             remoteBranches |-> out.remoteBranches,
             kind |-> out.kind, via |-> out.via, content |-> out.content,
             error |-> out.error, cached |-> out.cached, valid |-> out.valid,
             fetchError |-> out.fetchError, fetched |-> out.fetched,
             commitCalls |-> out.commitCalls, contentCalls |-> out.contentCalls]
  /\ initialized' = TRUE
  /\ UNCHANGED <<remote, now>>
  /\ ResolveUnchanged

NextResolve ==
  \/ TickResolve
  \/ \E f \in ChangingFiles : RemoteUpdate(f)
  \/ RestartProtocol
  \/ \E path \in Identifiers : Resolve(path)

ResolveSpec == InitResolve /\ [][NextResolve]_vars

\* refreshCache(path)
RefreshCache(path) ==
  /\ LET out == refreshCache(memoryCache, disk, path)
     IN  /\ memoryCache' = out.mem
         /\ disk' = out.disk
         /\ lastResolve' = [op |-> "refreshCache", path |-> path,
                            key |-> ResolveKey(path), error |-> out.error]
  /\ UNCHANGED <<initialized, remote, now>>
  /\ ResolveUnchanged

\* resolve and refreshCache calls, one after the other
NextRefresh ==
  \/ RestartProtocol
  \/ \E path \in Identifiers : Resolve(path)
  \/ \E path \in Identifiers : RefreshCache(path)

RefreshSpec == InitResolve /\ [][NextRefresh]_vars

----------------------------------------------------------------------------
(* loadContent and resolve called for the same identifier *)

\* loadContent("@github://" + path); what resolve(path) can do from the
\* same state is recorded with what loadContent did
LoadContent(path) ==
  /\ \E out \in loadContent(memoryCache, disk, now, ProtocolPrefix \o path) :
       /\ memoryCache' = out.mem
       /\ disk' = out.disk
       /\ lastResolve' =
            [op |-> "loadContent", path |-> path, out |-> out,
             wrote |-> Written(memoryCache, disk, out.mem, out.disk),
             asResolve |-> resolve(memoryCache, disk, now, path)]
  /\ initialized' = TRUE
  /\ UNCHANGED <<remote, now>>
  /\ ResolveUnchanged

InitLoad ==
  /\ enabled = TRUE
  /\ ttl = MinTtl
  /\ maxSize = MaxMaxSize
  /\ memoryCache = Empty
  /\ disk = Empty
  /\ now = T0
  /\ setLog = <<>>
  /\ onlySets = TRUE
  /\ lastCall = NoCall
  /\ calls = NoCalls
  /\ initialized = FALSE
  /\ remote = [f \in RemoteFiles |-> 1]
  /\ lastResolve = NoCall
  /\ discConfig = [enabled |-> FALSE, repositories |-> <<>>]
  /\ tree = Empty
  /\ scans = Empty
  /\ registryData = Null
  /\ listCalls = 0
  /\ lastDiscover = NoCall
  /\ loadedConfig = Null
  /\ registries = <<>>
  /\ tasks = Empty

NextLoad ==
  \/ \E f \in ChangingFiles : RemoteUpdate(f)
  \/ RestartProtocol
  \/ \E path \in Identifiers : Resolve(path)
  \/ \E path \in Identifiers : LoadContent(path)

LoadSpec == InitLoad /\ [][NextLoad]_vars

----------------------------------------------------------------------------
(* resolve calls for one identifier that run interleaved with one another
   and with commits on the remote repository: a call runs up to its next
   await on the cache or on the adapter, then any call may continue *)

Resolvers == {"r1", "r2"}

\* the identifier resolved: no branch, so the configured branch of o/r
RacePath == <<"o", "/", "r", "/", "a">>

RaceParsed == parseGitHubPath(RacePath)

RaceConfig == getRepositoryConfig(RaceParsed.repoKey)

RaceBranch == TargetBranch(RaceParsed.branch, RaceConfig)

RaceKey ==
  _generateCacheKey(RaceParsed.owner, RaceParsed.repo, RaceParsed.filePath,
                    RaceBranch)

InitRace ==
  /\ enabled = TRUE
  /\ ttl = MinTtl
  /\ maxSize = MaxMaxSize
  /\ memoryCache = Empty
  /\ disk = Empty
  /\ now = T0
  /\ setLog = <<>>
  /\ onlySets = TRUE
  /\ lastCall = NoCall
  /\ calls = [c \in Resolvers |-> Idle]
  /\ initialized = TRUE
  /\ remote = [f \in RemoteFiles |-> 1]
  /\ lastResolve = NoCall
  /\ discConfig = [enabled |-> FALSE, repositories |-> <<>>]
  /\ tree = Empty
  /\ scans = Empty
  /\ registryData = Null
  /\ listCalls = 0
  /\ lastDiscover = NoCall
  /\ loadedConfig = Null
  /\ registries = <<>>
  /\ tasks = Empty

RaceUnchanged ==
  UNCHANGED <<enabled, ttl, maxSize, now, histVars, initialized, discVars>>

\* a commit on the remote repository changes the file
RaceRemoteUpdate(f) ==
  /\ remote[f] < MaxRev
  /\ remote' = [remote EXCEPT ![f] = @ + 1]
  /\ UNCHANGED <<memoryCache, disk, calls, lastResolve>>
  /\ RaceUnchanged

\* resolve up to the end of await this.githubCache.get(...): with an item
\* the last commit is requested, without one the content
ResolveGet(c) ==
  /\ calls[c].pc = "idle"
  /\ LET g == get(memoryCache, disk, now, RaceKey)
     IN  /\ memoryCache' = g.mem
         /\ disk' = g.disk
         /\ calls' = [calls EXCEPT ![c] =
                        IF g.res # Null
                        THEN [pc |-> "getFileLastCommit", cachedItem |-> g.res]
                        ELSE [pc |-> "getFileContent"]]
  /\ UNCHANGED <<remote, lastResolve>>
  /\ RaceUnchanged

\* getFileLastCommit answers; isValid is called next
ResolveLastCommit(c) ==
  /\ calls[c].pc = "getFileLastCommit"
  /\ \E lastCommit \in getFileLastCommit(AdapterBranch(RaceBranch, RaceConfig),
                                         RaceParsed.filePath) :
       calls' = [calls EXCEPT ![c] =
                   [pc |-> "isValid", cachedItem |-> calls[c].cachedItem,
                    remoteMetadata |-> [sha |-> NoSha,
                                        lastCommitDate |-> DateOf(lastCommit)]]]
  /\ UNCHANGED <<memoryCache, disk, remote, lastResolve>>
  /\ RaceUnchanged

\* isValid answers: when it holds cachedItem.content is returned, otherwise
\* the content is requested. examined is the item that isValid judged.
ResolveIsValid(c) ==
  /\ calls[c].pc = "isValid"
  /\ LET v == isValid(memoryCache, disk, now, RaceKey, calls[c].remoteMetadata)
         examined == get(memoryCache, disk, now, RaceKey).res
     IN  /\ memoryCache' = v.mem
         /\ disk' = v.disk
         /\ IF v.res
            THEN /\ calls' = [calls EXCEPT ![c] = Idle]
                 /\ lastResolve' =
                      [op |-> "resolve", by |-> c, kind |-> "returned",
                       via |-> "hit", content |-> calls[c].cachedItem.content,
                       examined |-> examined, fetched |-> Null]
            ELSE /\ calls' = [calls EXCEPT ![c] = [pc |-> "getFileContent"]]
                 /\ UNCHANGED lastResolve
  /\ UNCHANGED remote
  /\ RaceUnchanged

\* getFileContent answers: with the content the last commit is requested;
\* with an error the catch block runs
ResolveContent(c) ==
  /\ calls[c].pc = "getFileContent"
  /\ \E result \in getFileContent(AdapterBranch(RaceBranch, RaceConfig),
                                  RaceParsed.filePath) :
       IF result.ok
       THEN /\ calls' = [calls EXCEPT ![c] = [pc |-> "set", result |-> result]]
            /\ UNCHANGED <<memoryCache, disk, lastResolve>>
       ELSE LET k == resolveCatch([mem |-> memoryCache, disk |-> disk], now,
                                  RaceKey, result.error)
            IN  /\ memoryCache' = k.mem
                /\ disk' = k.disk
                /\ calls' = [calls EXCEPT ![c] = Idle]
                /\ lastResolve' =
                     [op |-> "resolve", by |-> c,
                      kind |-> IF k.returned THEN "returned" ELSE "raised",
                      via |-> IF k.returned THEN "fallback" ELSE "fetch",
                      content |-> k.content, examined |-> Null, fetched |-> Null]
  /\ UNCHANGED remote
  /\ RaceUnchanged

\* the second getFileLastCommit answers: the item is written with set and
\* the content is returned
ResolveSet(c) ==
  /\ calls[c].pc = "set"
  /\ \E lastCommit \in getFileLastCommit(AdapterBranch(RaceBranch, RaceConfig),
                                         RaceParsed.filePath) :
       \E st \in resolveFetch([mem |-> memoryCache, disk |-> disk], now,
                              RaceParsed, RaceBranch, calls[c].result, lastCommit) :
         /\ memoryCache' = st.mem
         /\ disk' = st.disk
         /\ lastResolve' =
              [op |-> "resolve", by |-> c, kind |-> "returned", via |-> "fetched",
               content |-> calls[c].result.content, examined |-> Null,
               fetched |-> [content |-> calls[c].result.content,
                            lastCommitDate |-> DateOf(lastCommit)]]
  /\ calls' = [calls EXCEPT ![c] = Idle]
  /\ UNCHANGED remote
  /\ RaceUnchanged

NextRace ==
  \/ \E f \in ChangingFiles : RaceRemoteUpdate(f)
  \/ \E c \in Resolvers : ResolveGet(c)
  \/ \E c \in Resolvers : ResolveLastCommit(c)
  \/ \E c \in Resolvers : ResolveIsValid(c)
  \/ \E c \in Resolvers : ResolveContent(c)
  \/ \E c \in Resolvers : ResolveSet(c)

RaceSpec == InitRace /\ [][NextRace]_vars

----------------------------------------------------------------------------
(* GitHubDiscovery: the functions that group and classify the listed files.
   A path is the sequence of its pieces: "/", ".", and the words between. *)

\* s.endsWith(suffix)
EndsWith(str, suffix) ==
  /\ Len(str) >= Len(suffix)
  /\ SubSeq(str, Len(str) - Len(suffix) + 1, Len(str)) = suffix

\* s.indexOf(sub): the first position where sub starts in s, 0 when nowhere
IndexOfStr(str, sub) ==
  LET at == {i \in 1..(Len(str) - Len(sub) + 1) :
               SubSeq(str, i, i + Len(sub) - 1) = sub}
  IN  IF at = {} THEN 0 ELSE CHOOSE i \in at : \A j \in at : i <= j

\* s.includes(sub)
IncludesStr(str, sub) == IndexOfStr(str, sub) # 0

\* s.replace(sub, ''): the first occurrence of sub is taken out
ReplaceFirst(str, sub) ==
  LET i == IndexOfStr(str, sub)
  IN  IF i = 0 THEN str
      ELSE SubSeq(str, 1, i - 1) \o SubSeq(str, i + Len(sub), Len(str))

\* s.toLowerCase()
ToLowerCase(str) ==
  [i \in DOMAIN str |-> CASE str[i] = "MD" -> "md"
                          [] str[i] = "ROLE" -> "role"
                          [] str[i] = "X" -> "x"
                          [] OTHER -> str[i]]

DotMd == <<".", "md">>
DotRoleMd == <<".", "role", ".", "md">>

\* _isRoleRelatedFile
_isRoleRelatedFile(relativePath) ==
  \E ext \in {DotRoleMd, <<".", "thought", ".", "md">>,
              <<".", "execution", ".", "md">>, <<".", "knowledge", ".", "md">>,
              DotMd} :
    EndsWith(ToLowerCase(relativePath), ToLowerCase(ext))

\* _extractRoleIdFlexible; null is <<>>, which the caller skips like ''
_extractRoleIdFlexible(relativePath) ==
  LET parts == Split(relativePath, "/")
  IN  IF Len(parts) >= 2 THEN parts[1]
      ELSE IF EndsWith(parts[1], DotRoleMd) THEN ReplaceFirst(parts[1], DotRoleMd)
      ELSE IF EndsWith(parts[1], DotMd) THEN ReplaceFirst(parts[1], DotMd)
      ELSE <<>>

\* _getResourceType; null is ""
_getResourceType(relativePath) ==
  IF EndsWith(relativePath, DotRoleMd) THEN "role"
  ELSE IF EndsWith(relativePath, <<".", "thought", ".", "md">>) THEN "thought"
  ELSE IF EndsWith(relativePath, <<".", "execution", ".", "md">>) THEN "execution"
  ELSE IF EndsWith(relativePath, <<".", "knowledge", ".", "md">>) THEN "knowledge"
  ELSE ""

\* _extractResourceId; null is <<>>
_extractResourceId(relativePath, resourceType) ==
  LET parts == Split(relativePath, "/")
      fileName == parts[Len(parts)]
      suffix == <<".", resourceType, ".", "md">>
  IN  IF EndsWith(fileName, suffix)
      THEN SubSeq(fileName, 1, Len(fileName) - Len(suffix))
      ELSE <<>>

\* the entry that _groupFilesByRole pushes for a file
GroupedFile(path, rolePrefix) ==
  LET relativePath == IF StartsWith(path, rolePrefix)
                      THEN SubSeq(path, Len(rolePrefix) + 1, Len(path))
                      ELSE path
  IN  [fullPath |-> path, relativePath |-> relativePath,
       resourceType |-> _getResourceType(relativePath)]

\* roleGroups with one more file: pushed to the group of roleId, or to a new
\* group after the others (a Map keeps the order of insertion)
AddToGroup(roleGroups, roleId, file) ==
  IF \E i \in DOMAIN roleGroups : roleGroups[i].roleId = roleId
  THEN [i \in DOMAIN roleGroups |->
          IF roleGroups[i].roleId = roleId
          THEN [roleGroups[i] EXCEPT !.files = Append(@, file)]
          ELSE roleGroups[i]]
  ELSE Append(roleGroups, [roleId |-> roleId, files |-> <<file>>])

\* _groupFilesByRole: the groups in the order of their first file
RECURSIVE GroupFrom(_, _, _)
GroupFrom(roleGroups, files, rolePrefix) ==
  IF files = <<>> THEN roleGroups
  ELSE LET file == GroupedFile(Head(files), rolePrefix)
           roleId == _extractRoleIdFlexible(file.relativePath)
       IN  IF ~_isRoleRelatedFile(file.relativePath) \/ roleId = <<>>
           THEN GroupFrom(roleGroups, Tail(files), rolePrefix)
           ELSE GroupFrom(AddToGroup(roleGroups, roleId, file), Tail(files),
                          rolePrefix)

_groupFilesByRole(files, rolePrefix) == GroupFrom(<<>>, files, rolePrefix)

\* roleFiles.find(...): the first of the positions that match, 0: none
Find(at) == IF at = {} THEN 0 ELSE CHOOSE i \in at : \A j \in at : i <= j

\* a variant that takes the first listed file that any rule matches
_findMainRoleFile_listOrder(roleFiles, roleId) ==
  Find({i \in DOMAIN roleFiles : EndsWith(roleFiles[i].relativePath, DotMd)})

\* _findMainRoleFile: the position of the main file in roleFiles, 0: none
_findMainRoleFile(roleFiles, roleId) ==
  LET P1(file) == file.relativePath = roleId \o <<"/">> \o roleId \o DotRoleMd
      P2(file) == file.relativePath = roleId \o DotRoleMd
      P3(file) == /\ IncludesStr(file.relativePath, roleId)
                  /\ EndsWith(file.relativePath, DotRoleMd)
      P4(file) == EndsWith(file.relativePath, DotRoleMd)
      P5(file) == EndsWith(file.relativePath, DotMd)
      At1 == {i \in DOMAIN roleFiles : P1(roleFiles[i])}
      At2 == {i \in DOMAIN roleFiles : P2(roleFiles[i])}
      At3 == {i \in DOMAIN roleFiles : P3(roleFiles[i])}
      At4 == {i \in DOMAIN roleFiles : P4(roleFiles[i])}
      At5 == {i \in DOMAIN roleFiles : P5(roleFiles[i])}
  IN  IF Find(At1) # 0 THEN Find(At1)
      ELSE IF Find(At2) # 0 THEN Find(At2)
      ELSE IF Find(At3) # 0 THEN Find(At3)
      ELSE IF Find(At4) # 0 THEN Find(At4)
      ELSE Find(At5)

\* `@github://${repoKey}@${branch}/${file.fullPath}`
Reference(repoConfig, fullPath) ==
  ProtocolPrefix \o repoConfig.owner \o <<"/">> \o repoConfig.name \o <<"@">>
    \o (IF repoConfig.branch # <<>> THEN repoConfig.branch ELSE Main)
    \o <<"/">> \o fullPath

\* the resource that _processRoleGroup adds for file i of roleFiles, in a
\* sequence that is empty when the file is skipped
RelatedResource(repoConfig, roleId, roleFiles, i) ==
  LET file == roleFiles[i]
      resourceId == _extractResourceId(file.relativePath, file.resourceType)
  IN  IF file.resourceType = "" \/ resourceId = <<>> THEN <<>>
      ELSE <<[id |-> resourceId, protocol |-> file.resourceType,
              reference |-> Reference(repoConfig, file.fullPath),
              roleId |-> roleId]>>

RECURSIVE RelatedFrom(_, _, _, _, _)
RelatedFrom(repoConfig, roleId, roleFiles, main, i) ==
  IF i > Len(roleFiles) THEN <<>>
  ELSE (IF i = main THEN <<>>
        ELSE RelatedResource(repoConfig, roleId, roleFiles, i))
       \o RelatedFrom(repoConfig, roleId, roleFiles, main, i + 1)

\* _processRoleGroup: the resources it adds to the registry, in order
_processRoleGroup(repoConfig, roleId, roleFiles) ==
  LET main == _findMainRoleFile(roleFiles, roleId)
  IN  IF main = 0 THEN <<>>
      ELSE <<[id |-> roleId, protocol |-> "role",
              reference |-> Reference(repoConfig, roleFiles[main].fullPath),
              roleId |-> <<>>]>>
           \o RelatedFrom(repoConfig, roleId, roleFiles, main, 1)

----------------------------------------------------------------------------
(* The cache of several repositories and branches, cleared by repository *)

ClearOwners == {<<"o">>}
ClearRepos == {<<"r">>, <<"r", "r">>}
ClearBranches == {<<"m">>, <<"m", "m">>}

ClearIds ==
  [owner : ClearOwners, repo : ClearRepos, branch : ClearBranches,
   filePath : {<<"a">>}]

ClearInput == [content |-> "c1", metadata |-> [sha |-> NoSha, lastCommitDate |-> NoDate]]

ClearUnchanged == UNCHANGED <<enabled, ttl, maxSize, setLog, onlySets, calls, protoVars, discVars>>

TickClear ==
  /\ now < T0 + (MaxTicks * TickMs)
  /\ now' = now + TickMs
  /\ lastCall' = [op |-> "tick"]
  /\ UNCHANGED <<memoryCache, disk>>
  /\ ClearUnchanged

SetClear(id) ==
  /\ \E st \in set(memoryCache, disk, now, id.owner, id.repo, id.filePath,
                   id.branch, ClearInput.content, ClearInput.metadata) :
       memoryCache' = st.mem /\ disk' = st.disk
  /\ lastCall' = [op |-> "set"]
  /\ UNCHANGED now
  /\ ClearUnchanged

\* a new GitHubCache over the same directory
RestartClear ==
  /\ memoryCache # Empty
  /\ memoryCache' = Empty
  /\ lastCall' = [op |-> "constructor"]
  /\ UNCHANGED <<disk, now>>
  /\ ClearUnchanged

\* clearRepository(owner, repo, branch); branch <<>>: not given
ClearRepositoryCall(owner, repo, branch) ==
  /\ LET st == clearRepository(memoryCache, disk, owner, repo, branch)
     IN  memoryCache' = st.mem /\ disk' = st.disk
  /\ lastCall' = [op |-> "clearRepository", owner |-> owner, repo |-> repo,
                  branch |-> branch,
                  before |-> [mem |-> memoryCache, disk |-> disk]]
  /\ UNCHANGED now
  /\ ClearUnchanged

NextClear ==
  \/ TickClear
  \/ \E id \in ClearIds : SetClear(id)
  \/ RestartClear
  \/ \E owner \in ClearOwners, repo \in ClearRepos,
        branch \in ClearBranches \cup {<<>>} :
       ClearRepositoryCall(owner, repo, branch)

ClearSpec == Init /\ [][NextClear]_vars

----------------------------------------------------------------------------
(* The parsers applied to identifiers *)

Alphabet == {"a", "b", "/", "@"}

\* the identifiers that are parsed: every string of 1..MaxIdLen characters
ParseInputs == UNION {[1..n -> Alphabet] : n \in 1..MaxIdLen}

InitParse ==
  /\ enabled = TRUE
  /\ ttl = MinTtl
  /\ maxSize = MaxMaxSize
  /\ memoryCache = Empty
  /\ disk = Empty
  /\ now = T0
  /\ setLog = <<>>
  /\ onlySets = TRUE
  /\ InitRest
  /\ lastCall \in {[op |-> "identifier", path |-> id] : id \in ParseInputs}

ParseUnchanged ==
  UNCHANGED <<cacheVars, setLog, onlySets, calls, protoVars, discVars>>

\* parseGitHubPath(path), with or without the protocol prefix
ParseGitHubPathCall ==
  /\ lastCall.op = "identifier"
  /\ \E prefixed \in BOOLEAN :
       lastCall' = [op |-> "parseGitHubPath", path |-> lastCall.path,
                    prefixed |-> prefixed,
                    res |-> parseGitHubPath(IF prefixed
                                            THEN ProtocolPrefix \o lastCall.path
                                            ELSE lastCall.path)]
  /\ ParseUnchanged

\* parseUrl(url), with or without the protocol prefix
ParseUrlCall ==
  /\ lastCall.op = "identifier"
  /\ \E prefixed \in BOOLEAN :
       lastCall' = [op |-> "parseUrl", path |-> lastCall.path,
                    prefixed |-> prefixed,
                    res |-> parseUrl(IF prefixed
                                     THEN ProtocolPrefix \o lastCall.path
                                     ELSE lastCall.path)]
  /\ ParseUnchanged

NextParse == ParseGitHubPathCall \/ ParseUrlCall

ParseSpec == InitParse /\ [][NextParse]_vars

----------------------------------------------------------------------------
(* The grouping and the processing of listed files, on lists of files *)

RolePrefix == <<"roles", "/">>

\* the repositories that discovery is configured with, after validation
\* (branch 'main' and rolePrefix 'roles/' are Joi's defaults; the branch of
\* o/q is named d/e)
DiscRepositories ==
  <<[owner |-> <<"o">>, name |-> <<"p">>, branch |-> Main, enabled |-> TRUE,
     rolePrefix |-> RolePrefix],
    [owner |-> <<"o">>, name |-> <<"q">>, branch |-> <<"d", "/", "e">>,
     enabled |-> TRUE,
     rolePrefix |-> RolePrefix]>>

\* paths below the role prefix, as the adapter lists them
ListedPaths ==
  {<<"a", "/", "a", ".", "role", ".", "md">>,
   <<"a", "/", "thought", "/", "a", ".", "thought", ".", "md">>,
   <<"b", "/", "b", ".", "role", ".", "md">>,
   <<"a", "/", "ignored", ".", "png">>,
   <<"a", ".", "role", ".", "md">>,
   <<"a", "/", "b", ".", "role", ".", "md">>,
   <<"a", "/", "note", ".", "md">>,
   <<"a", "/", "X", ".", "MD">>,
   <<"b", ".", "md", "a", ".", "md">>,
   <<"a", "/", ".", "thought", ".", "md">>}

\* the lists of at most n distinct files
FileLists(n) ==
  {files \in UNION {[1..k -> {RolePrefix \o path : path \in ListedPaths}] : k \in 0..n} :
     \A i, j \in DOMAIN files : i # j => files[i] # files[j]}

\* getFilesRecursively: currentPath.replace(/\/$/, '')
cleanPath(currentPath) ==
  IF EndsWith(currentPath, <<"/">>)
  THEN SubSeq(currentPath, 1, Len(currentPath) - 1)
  ELSE currentPath

InitGroup ==
  /\ enabled = TRUE
  /\ ttl = MinTtl
  /\ maxSize = MaxMaxSize
  /\ memoryCache = Empty
  /\ disk = Empty
  /\ now = T0
  /\ setLog = <<>>
  /\ onlySets = TRUE
  /\ InitRest
  /\ lastCall \in {[op |-> "files", files |-> files] : files \in FileLists(MaxFiles)}

GroupUnchanged ==
  UNCHANGED <<cacheVars, setLog, onlySets, calls, protoVars, discVars>>

\* _groupFilesByRole(files, rolePrefix)
\* (the files are the ones getFilesRecursively lists under the prefix, which
\* drops a trailing slash of the path it is given: the same list for 'roles'
\* and 'roles/'; bare is what the call returns when rolePrefix is 'roles')
GroupFilesByRoleCall ==
  /\ lastCall.op = "files"
  /\ lastCall' = [op |-> "_groupFilesByRole", files |-> lastCall.files,
                  roleGroups |-> _groupFilesByRole(lastCall.files, RolePrefix),
                  bare |-> _groupFilesByRole(lastCall.files,
                                             cleanPath(RolePrefix))]
  /\ GroupUnchanged

\* _findMainRoleFile(roleFiles, roleId) on a group of the files
FindMainRoleFileCall ==
  /\ lastCall.op = "_groupFilesByRole"
  /\ \E g \in DOMAIN lastCall.roleGroups :
       LET group == lastCall.roleGroups[g]
       IN  lastCall' = [op |-> "_findMainRoleFile", roleId |-> group.roleId,
                        roleFiles |-> group.files,
                        main |-> _findMainRoleFile(group.files, group.roleId)]
  /\ GroupUnchanged

\* _processRoleGroup(repoConfig, roleId, roleFiles) on a group of the files
ProcessRoleGroupCall ==
  /\ lastCall.op = "_groupFilesByRole"
  /\ \E g \in DOMAIN lastCall.roleGroups :
       LET group == lastCall.roleGroups[g]
       IN  lastCall' = [op |-> "_processRoleGroup", roleId |-> group.roleId,
                        roleFiles |-> group.files,
                        main |-> _findMainRoleFile(group.files, group.roleId),
                        added |-> _processRoleGroup(DiscRepositories[1],
                                                    group.roleId, group.files)]
  /\ GroupUnchanged

NextGroup == GroupFilesByRoleCall \/ FindMainRoleFileCall \/ ProcessRoleGroupCall

GroupSpec == InitGroup /\ [][NextGroup]_vars

----------------------------------------------------------------------------
(* GitHubDiscovery.discoverRegistry: the scans of the enabled repositories
   run interleaved, one step of a scan between two awaits *)

\* RegistryData.createEmpty(source, ...): a registry without resources
createEmpty == [source |-> "github", resources |-> <<>>]

\* RegistryData.addResource, for the resources that one group adds
addResources(registry, resources) ==
  [registry EXCEPT !.resources = @ \o resources]

RepoKey(repoConfig) == repoConfig.owner \o <<"/">> \o repoConfig.name

\* GitHubConfigManager.getEnabledRepositories
getEnabledRepositories(config) ==
  SelectSeq(config.repositories, LAMBDA repo : repo.enabled # FALSE)

\* a variant that scans every configured repository, whatever is enabled
ScannedRepositories_all(config) == config.repositories

\* the repositories that discoverRegistry scans: none when discovery is
\* disabled or no repository is enabled
ScannedRepositories(config) ==
  IF ~config.enabled THEN <<>> ELSE getEnabledRepositories(config)

MaxDepth == 5

\* the directories on the way to a file, the listed directory first
DirsOf(path) == {SubSeq(path, 1, i - 1) : i \in {j \in DOMAIN path : path[j] = "/"}}

Depth(dir) == Cardinality({j \in DOMAIN dir : dir[j] = "/"})

\* the directories that getFilesRecursively lists for these files
Dirs(files) == {<<"roles">>} \cup UNION {DirsOf(files[i]) : i \in DOMAIN files}

\* s without the entries that stand earlier in it
RECURSIVE Distinct(_)
Distinct(s) ==
  IF s = <<>> THEN <<>>
  ELSE LET front == Distinct(SubSeq(s, 1, Len(s) - 1))
       IN  IF s[Len(s)] \in Range(front) THEN front ELSE Append(front, s[Len(s)])

\* GitHubAdapter.getContents of a directory of a repository that holds
\* files: its files, and its directories on the way to a file, in order
getContents(files, dir) ==
  LET pre == dir \o <<"/">>
      below == SelectSeq(files, LAMBDA path : StartsWith(path, pre))
      Entry(path) ==
        LET k == IndexFrom(path, "/", Len(pre) + 1)
        IN  IF k = 0 THEN [type |-> "file", path |-> path]
            ELSE [type |-> "dir", path |-> SubSeq(path, 1, k - 1)]
  IN  Distinct([i \in DOMAIN below |-> Entry(below[i])])

\* a variant without a limit on the depth
TooDeep_never(depth) == FALSE

\* if (depth > maxDepth) return
TooDeep(depth) == depth > MaxDepth

\* processDirectory and its loop over the contents: the files pushed to
\* allFiles and the directories whose listing was requested, in order, when
\* the listing of the directories in failed throws
RECURSIVE processDirectory(_, _, _, _)
RECURSIVE processContents(_, _, _, _)
processDirectory(files, failed, currentPath, depth) ==
  IF TooDeep(depth) THEN [allFiles |-> <<>>, listed |-> <<>>]
  ELSE IF currentPath \in failed
       THEN [allFiles |-> <<>>, listed |-> <<currentPath>>]
  ELSE LET r == processContents(files, failed, getContents(files, currentPath), depth)
       IN  [allFiles |-> r.allFiles, listed |-> <<currentPath>> \o r.listed]

processContents(files, failed, contents, depth) ==
  IF contents = <<>> THEN [allFiles |-> <<>>, listed |-> <<>>]
  ELSE LET item == Head(contents)
           first == IF item.type = "file"
                    THEN [allFiles |-> IF EndsWith(ToLowerCase(item.path), DotMd)
                                       THEN <<item.path>> ELSE <<>>,
                          listed |-> <<>>]
                    ELSE processDirectory(files, failed, item.path, depth + 1)
           rest == processContents(files, failed, Tail(contents), depth)
       IN  [allFiles |-> first.allFiles \o rest.allFiles,
            listed |-> first.listed \o rest.listed]

\* GitHubAdapter.getFilesRecursively from the role prefix of a repository
\* that holds files
getFilesRecursively(files, failed) ==
  processDirectory(files, failed, <<"roles">>, 0).allFiles

\* a variant of the join that is over when one scan is
allSettled_any(s) == \E key \in DOMAIN s : s[key].state = "fulfilled"

\* Promise.allSettled(scanPromises) is over
allSettled(s) == \A key \in DOMAIN s : s[key].state = "fulfilled"

\* the configurations: discovery on or off, each repository enabled or not
DiscConfigs ==
  {[enabled |-> e,
    repositories |-> [i \in DOMAIN DiscRepositories |->
                        [DiscRepositories[i] EXCEPT !.enabled = f[i]]]] :
     e \in BOOLEAN, f \in [DOMAIN DiscRepositories -> BOOLEAN]}

\* the files below roles/ that repository o/p can hold, in listing order
TreesP ==
  {<<>>,
   <<RolePrefix \o <<"a", "/", "a", ".", "role", ".", "md">>,
     RolePrefix \o <<"a", "/", "thought", "/", "a", ".", "thought", ".", "md">>>>,
   <<RolePrefix \o <<"a", "/", "a", ".", "role", ".", "md">>,
     RolePrefix \o <<"a", "/", "ignored", ".", "png">>,
     RolePrefix \o <<"b", ".", "role", ".", "md">>>>}

\* the files below roles/ that repository o/q can hold, in listing order
TreesQ ==
  {<<RolePrefix \o <<"f", "/", "f", ".", "role", ".", "md">>,
     RolePrefix \o <<"f", "/", "f", ".", "execution", ".", "md">>>>,
   <<RolePrefix \o <<"f", ".", "md">>,
     RolePrefix \o <<"j", "/", "j", ".", "role", ".", "md">>>>}

Trees ==
  {[key \in {RepoKey(DiscRepositories[1]), RepoKey(DiscRepositories[2])} |->
      IF key = RepoKey(DiscRepositories[1]) THEN p ELSE q] :
     p \in TreesP, q \in TreesQ}

InitDisc ==
  /\ enabled = TRUE
  /\ ttl = MinTtl
  /\ maxSize = MaxMaxSize
  /\ memoryCache = Empty
  /\ disk = Empty
  /\ now = T0
  /\ setLog = <<>>
  /\ onlySets = TRUE
  /\ lastCall = NoCall
  /\ calls = NoCalls
  /\ initialized = FALSE
  /\ remote = Empty
  /\ lastResolve = NoCall
  /\ discConfig \in DiscConfigs
  /\ tree \in Trees
  /\ scans = Empty
  /\ registryData = Null
  /\ listCalls = 0
  /\ lastDiscover = NoCall
  /\ loadedConfig = Null
  /\ registries = <<>>
  /\ tasks = Empty

DiscUnchanged ==
  UNCHANGED <<cacheVars, histVars, calls, protoVars, discConfig, tree,
              loadedConfig, registries, tasks>>

RepoOf(key) ==
  CHOOSE repo \in Range(discConfig.repositories) : RepoKey(repo) = key

\* a scan after one more group: the resources are added to the registry and
\* the files of the group are counted
ScanStep(scan, registry, repo) ==
  IF scan.next > Len(scan.roleGroups)
  THEN [scan |-> [scan EXCEPT !.state = "fulfilled"], registry |-> registry]
  ELSE LET group == scan.roleGroups[scan.next]
       IN  [scan |-> [scan EXCEPT
                        !.next = @ + 1,
                        !.resourceCount = @ + Len(group.files),
                        !.state = IF scan.next = Len(scan.roleGroups)
                                  THEN "fulfilled" ELSE "processing"],
            registry |-> addResources(registry,
                           _processRoleGroup(repo, group.roleId, group.files))]

\* discoverRegistry up to the await of the join: an empty registry at once
\* when nothing is to scan, otherwise this.registryData is replaced and the
\* listing of every enabled repository is requested
DiscoverRegistry ==
  /\ scans = Empty
  /\ LET enabledRepos == ScannedRepositories(discConfig)
     IN  IF enabledRepos = <<>>
         THEN /\ lastDiscover' = [op |-> "discoverRegistry", raised |-> FALSE,
                                  result |-> createEmpty, scans |-> Empty]
              /\ UNCHANGED <<scans, registryData, listCalls>>
         ELSE /\ listCalls + Len(enabledRepos) <= MaxListCalls
              /\ registryData' = createEmpty
              /\ listCalls' = listCalls + Len(enabledRepos)
              /\ scans' = [key \in {RepoKey(repo) : repo \in Range(enabledRepos)} |->
                             [state |-> "listing", failed |-> {},
                              roleGroups |-> <<>>, next |-> 1,
                              resourceCount |-> 0]]
              /\ lastDiscover' = NoCall
  /\ DiscUnchanged

\* _scanRepository when the listing is over, some directories having failed:
\* the files are grouped and the first group is processed
ScanListed(key) ==
  /\ key \in DOMAIN scans
  /\ scans[key].state = "listing"
  /\ \E failed \in SUBSET Dirs(tree[key]) :
       LET files == getFilesRecursively(tree[key], failed)
           listed == [scans[key] EXCEPT
                        !.failed = failed,
                        !.roleGroups = _groupFilesByRole(files, RepoOf(key).rolePrefix)]
           step == ScanStep(listed, registryData, RepoOf(key))
       IN  /\ scans' = [scans EXCEPT ![key] = step.scan]
           /\ registryData' = step.registry
  /\ UNCHANGED <<listCalls, lastDiscover>>
  /\ DiscUnchanged

\* _scanRepository after the await of a group: the next group is processed
ScanGroup(key) ==
  /\ key \in DOMAIN scans
  /\ scans[key].state = "processing"
  /\ LET step == ScanStep(scans[key], registryData, RepoOf(key))
     IN  /\ scans' = [scans EXCEPT ![key] = step.scan]
         /\ registryData' = step.registry
  /\ UNCHANGED <<listCalls, lastDiscover>>
  /\ DiscUnchanged

\* discoverRegistry after the join: this.registryData is returned
DiscoverReturn ==
  /\ scans # Empty
  /\ allSettled(scans)
  /\ lastDiscover' = [op |-> "discoverRegistry", raised |-> FALSE,
                      result |-> registryData, scans |-> scans]
  /\ scans' = Empty
  /\ UNCHANGED <<registryData, listCalls>>
  /\ DiscUnchanged

NextDisc ==
  \/ DiscoverRegistry
  \/ \E key \in DOMAIN tree : ScanListed(key)
  \/ \E key \in DOMAIN tree : ScanGroup(key)
  \/ DiscoverReturn

DiscSpec == InitDisc /\ [][NextDisc]_vars

----------------------------------------------------------------------------
(* The recursive listing, on deep trees *)

\* the file a.md that is d directories below the role prefix
RECURSIVE DeepDir(_)
DeepDir(d) == IF d = 0 THEN RolePrefix ELSE DeepDir(d - 1) \o <<"x", "/">>

DeepFile(d) == DeepDir(d) \o <<"a", ".", "md">>

\* the trees with a file at some of the depths 0..MaxTreeDepth
DeepTrees ==
  {SelectSeq([i \in 1..(MaxTreeDepth + 1) |-> DeepFile(i - 1)],
             LAMBDA path : Depth(path) - 1 \in depths) :
     depths \in SUBSET (0..MaxTreeDepth)}

InitList ==
  /\ enabled = TRUE
  /\ ttl = MinTtl
  /\ maxSize = MaxMaxSize
  /\ memoryCache = Empty
  /\ disk = Empty
  /\ now = T0
  /\ setLog = <<>>
  /\ onlySets = TRUE
  /\ InitRest
  /\ lastCall \in {[op |-> "tree", files |-> files] : files \in DeepTrees}

\* getFilesRecursively(repoConfig, rolePrefix, {maxDepth: 5, ...}), when no
\* listing fails or when the listing of one directory fails
GetFilesRecursivelyCall ==
  /\ lastCall.op = "tree"
  /\ \E failed \in {{}} \cup {{dir} : dir \in Dirs(lastCall.files)} :
       LET r == processDirectory(lastCall.files, failed, <<"roles">>, 0)
       IN  lastCall' = [op |-> "getFilesRecursively", files |-> lastCall.files,
                        failed |-> failed, allFiles |-> r.allFiles,
                        listed |-> r.listed]
  /\ UNCHANGED <<cacheVars, setLog, onlySets, calls, protoVars, discVars>>

NextList == GetFilesRecursivelyCall

ListSpec == InitList /\ [][NextList]_vars

----------------------------------------------------------------------------
(* The cache keys of parsed identifiers: an entry is stored for one
   identifier and read for another *)

\* identifiers a/a@..., with a branch and a path made of "a", ":" and "/"
KeyIdentifiers ==
  {<<"a", "/", "a", "@">> \o rest :
     rest \in UNION {[1..n -> {"a", ":", "/"}] : n \in 1..MaxRestLen}}

InitKey ==
  /\ enabled = TRUE
  /\ ttl = MinTtl
  /\ maxSize = MaxMaxSize
  /\ memoryCache = Empty
  /\ disk = Empty
  /\ now = T0
  /\ setLog = <<>>
  /\ onlySets = TRUE
  /\ InitRest
  /\ lastCall \in {[op |-> "identifier", path |-> id] : id \in KeyIdentifiers}

\* set(owner, repo, filePath, branch, content, metadata) for the identifier,
\* as resolve calls it
KeySetCall ==
  /\ lastCall.op = "identifier"
  /\ LET p == parseGitHubPath(lastCall.path)
     IN  /\ p.ok
         /\ \E out \in set(memoryCache, disk, now, p.owner, p.repo, p.filePath,
                           p.branch, "c1", [sha |-> NoSha, lastCommitDate |-> NoDate]) :
              /\ memoryCache' = out.mem
              /\ disk' = out.disk
         /\ lastCall' = [op |-> "set", path |-> lastCall.path, stored |-> p]
  /\ UNCHANGED <<enabled, ttl, maxSize, now, setLog, onlySets, calls, protoVars,
                 discVars>>

\* get(owner, repo, filePath, branch) for an identifier, as resolve calls it
KeyGetCall(path) ==
  /\ lastCall.op = "set"
  /\ LET p == parseGitHubPath(path)
         g == get(memoryCache, disk, now,
                  _generateCacheKey(p.owner, p.repo, p.filePath, p.branch))
     IN  /\ p.ok
         /\ memoryCache' = g.mem
         /\ disk' = g.disk
         /\ lastCall' = [op |-> "get", path |-> path, asked |-> p,
                         stored |-> lastCall.stored, res |-> g.res]
  /\ UNCHANGED <<enabled, ttl, maxSize, now, setLog, onlySets, calls, protoVars,
                 discVars>>

NextKey == KeySetCall \/ \E path \in KeyIdentifiers : KeyGetCall(path)

KeySpec == InitKey /\ [][NextKey]_vars

----------------------------------------------------------------------------
(* GitHubDiscovery called while other calls of it are in flight: a call runs
   up to its next await, then any call in flight may continue. A registry
   is an object: registries holds the objects created so far, and
   registryData is Null or the reference of one of them. *)

MaxRegistries == 2   \* the registries created in a run

\* the reference of the i-th registry created
Ref(i) == [ref |-> i]

\* the reference of a registry that nothing but its caller refers to
Fresh == Ref(0)

\* the resources that the registry behind a reference holds
ResourcesAt(reference) ==
  IF reference = Null \/ reference = Fresh THEN <<>>
  ELSE registries[reference.ref].resources

\* GitHubConfigManager._getDefaultConfig
_getDefaultConfig == [enabled |-> FALSE, repositories |-> <<>>]

\* a variant in which getRegistryData discovers on every call
Held_never(reference) == FALSE

\* getRegistryData: if (!this.registryData) is false, a registry is held
Held(reference) == reference # Null

\* a variant of getRegistryData without its try and catch
getRegistryDataReturn_noCatch(reference) ==
  [raised |-> reference = Null, caught |-> FALSE, result |-> reference]

\* getRegistryData from its read of this.registryData.resources.length on:
\* the read throws when this.registryData is null, and the catch returns a
\* registry made for the caller
getRegistryDataReturn(reference) ==
  [raised |-> FALSE, caught |-> reference = Null,
   result |-> IF reference = Null THEN Fresh ELSE reference]

\* a call of GitHubDiscovery that has just been made
NewTask(kind) ==
  [kind |-> kind, pc |-> "initialize", held |-> registryData,
   lists |-> listCalls, scans |-> Empty, value |-> Null]

\* the callers of the discovery: each makes a call when its last one has
\* returned, while a registry is left for the call to create
Slots == {"caller1", "caller2"}

CanStart ==
  /\ DOMAIN tasks # Slots
  /\ Len(registries) + Cardinality({t \in DOMAIN tasks : tasks[t].pc = "initialize"})
       < MaxRegistries

FreeSlot == CHOOSE i \in Slots : i \notin DOMAIN tasks

\* the call that returned before this one
PrevCall ==
  IF lastDiscover.op = "none" THEN [op |-> "none", tree |-> Empty]
  ELSE [op |-> lastDiscover.op, tree |-> lastDiscover.tree]

\* what a call that returns now has done
Outcome(task, out, discovered) ==
  [op |-> task.kind, raised |-> out.raised, caught |-> out.caught,
   discovered |-> discovered, held |-> task.held, result |-> out.result,
   resources |-> ResourcesAt(out.result), lists |-> listCalls - task.lists,
   failed |-> UNION {task.scans[key].failed : key \in DOMAIN task.scans},
   prev |-> PrevCall, tree |-> tree]

RegUnchanged == UNCHANGED <<cacheVars, histVars, calls, protoVars, discConfig, scans>>

\* getRegistryData is called: it returns the registry held at once, or
\* calls discoverRegistry and awaits it
CallGetRegistryData ==
  /\ IF Held(registryData)
     THEN LET out == getRegistryDataReturn(registryData)
          IN  /\ lastDiscover' = Outcome(NewTask("getRegistryData"), out, FALSE)
              /\ UNCHANGED tasks
     ELSE /\ CanStart
          /\ tasks' = Put(tasks, FreeSlot, NewTask("getRegistryData"))
          /\ UNCHANGED lastDiscover
  /\ UNCHANGED <<registryData, registries, loadedConfig, listCalls, tree>>
  /\ RegUnchanged

\* refresh is called: this.registryData = null, then discoverRegistry is
\* called and awaited
CallRefresh ==
  /\ CanStart
  /\ registryData' = Null
  /\ tasks' = Put(tasks, FreeSlot, NewTask("refresh"))
  /\ UNCHANGED <<registries, loadedConfig, listCalls, tree, lastDiscover>>
  /\ RegUnchanged

\* discoverRegistry is called by a user of the discovery
CallDiscoverRegistry ==
  /\ CanStart
  /\ tasks' = Put(tasks, FreeSlot, NewTask("discoverRegistry"))
  /\ UNCHANGED <<registryData, registries, loadedConfig, listCalls, tree,
                 lastDiscover>>
  /\ RegUnchanged

\* discoverRegistry after await this.initialize(): the first call loads the
\* configuration, the default one when the loading fails; then an empty
\* registry is returned when nothing is to scan, otherwise
\* this.registryData is replaced by a new registry and the listing of
\* every enabled repository is requested
TaskInitialize(t) ==
  /\ t \in DOMAIN tasks
  /\ tasks[t].pc = "initialize"
  /\ registries' = Append(registries, createEmpty)
  /\ \E cfg \in (IF loadedConfig = Null THEN {discConfig, _getDefaultConfig}
                 ELSE {loadedConfig}) :
       /\ loadedConfig' = cfg
       /\ LET enabledRepos == ScannedRepositories(cfg)
              created == Ref(Len(registries) + 1)
          IN  IF enabledRepos = <<>>
              THEN /\ tasks' = [tasks EXCEPT ![t].pc = "returned",
                                             ![t].value = created]
                   /\ UNCHANGED <<registryData, listCalls>>
              ELSE /\ registryData' = created
                   /\ listCalls' = listCalls + Len(enabledRepos)
                   /\ tasks' = [tasks EXCEPT
                        ![t].pc = "scanning",
                        ![t].scans =
                           [key \in {RepoKey(repo) : repo \in Range(enabledRepos)} |->
                              [state |-> "listing", failed |-> {},
                               roleGroups |-> <<>>, next |-> 1,
                               resourceCount |-> 0]]]
  /\ UNCHANGED <<tree, lastDiscover>>
  /\ RegUnchanged

RepoIn(cfg, key) ==
  CHOOSE repo \in Range(cfg.repositories) : RepoKey(repo) = key

\* a scan after one more group: _processRoleGroup adds the resources to the
\* registry that this.registryData refers to at that moment, and throws
\* when it is null; _scanRepository catches that and goes on to the next
\* group without counting the files
TaskScanStep(scan, repo) ==
  IF scan.next > Len(scan.roleGroups)
  THEN [scan |-> [scan EXCEPT !.state = "fulfilled"], registries |-> registries]
  ELSE LET group == scan.roleGroups[scan.next]
           threw == registryData = Null
       IN  [scan |-> [scan EXCEPT
                        !.next = @ + 1,
                        !.resourceCount = @ + (IF threw THEN 0 ELSE Len(group.files)),
                        !.state = IF scan.next = Len(scan.roleGroups)
                                  THEN "fulfilled" ELSE "processing"],
            registries |->
              IF threw THEN registries
              ELSE [registries EXCEPT ![registryData.ref] =
                      addResources(@, _processRoleGroup(repo, group.roleId,
                                                        group.files))]]

\* _scanRepository when the listing is over, with or without a failure of
\* the listing of the role directory
TaskScanListed(t, key) ==
  /\ t \in DOMAIN tasks
  /\ tasks[t].pc = "scanning"
  /\ key \in DOMAIN tasks[t].scans
  /\ tasks[t].scans[key].state = "listing"
  /\ \E failed \in {{}, {<<"roles">>}} :
       LET repo == RepoIn(loadedConfig, key)
           files == getFilesRecursively(tree[key], failed)
           listed == [tasks[t].scans[key] EXCEPT
                        !.failed = failed,
                        !.roleGroups = _groupFilesByRole(files, repo.rolePrefix)]
           step == TaskScanStep(listed, repo)
       IN  /\ tasks' = [tasks EXCEPT ![t].scans[key] = step.scan]
           /\ registries' = step.registries
  /\ UNCHANGED <<registryData, loadedConfig, listCalls, tree, lastDiscover>>
  /\ RegUnchanged

\* _scanRepository after the await of a group
TaskScanGroup(t, key) ==
  /\ t \in DOMAIN tasks
  /\ tasks[t].pc = "scanning"
  /\ key \in DOMAIN tasks[t].scans
  /\ tasks[t].scans[key].state = "processing"
  /\ LET step == TaskScanStep(tasks[t].scans[key], RepoIn(loadedConfig, key))
     IN  /\ tasks' = [tasks EXCEPT ![t].scans[key] = step.scan]
         /\ registries' = step.registries
  /\ UNCHANGED <<registryData, loadedConfig, listCalls, tree, lastDiscover>>
  /\ RegUnchanged

\* discoverRegistry after the join of the scans: return this.registryData,
\* whatever it refers to now
TaskJoin(t) ==
  /\ t \in DOMAIN tasks
  /\ tasks[t].pc = "scanning"
  /\ allSettled(tasks[t].scans)
  /\ tasks' = [tasks EXCEPT ![t].pc = "returned", ![t].value = registryData]
  /\ UNCHANGED <<registryData, registries, loadedConfig, listCalls, tree,
                 lastDiscover>>
  /\ RegUnchanged

\* the caller of discoverRegistry goes on: a user receives what it returned,
\* refresh ends, and getRegistryData assigns it to this.registryData and
\* returns
TaskReturn(t) ==
  /\ t \in DOMAIN tasks
  /\ tasks[t].pc = "returned"
  /\ LET task == tasks[t]
         plain == [raised |-> FALSE, caught |-> FALSE]
     IN  CASE task.kind = "discoverRegistry" ->
                LET out == plain @@ [result |-> task.value]
                IN  /\ lastDiscover' = Outcome(task, out, TRUE)
                    /\ UNCHANGED registryData
           [] task.kind = "refresh" ->
                /\ lastDiscover' = Outcome(task, plain @@ [result |-> Null], TRUE)
                /\ UNCHANGED registryData
           [] task.kind = "getRegistryData" ->
                LET out == getRegistryDataReturn(task.value)
                IN  /\ registryData' = task.value
                    /\ lastDiscover' = Outcome(task, out, TRUE)
  /\ tasks' = Remove(tasks, {t})
  /\ UNCHANGED <<registries, loadedConfig, listCalls, tree>>
  /\ RegUnchanged

\* the remote repositories of the runs: the files of o/p vary, o/q is empty
RegTrees ==
  {[key \in {RepoKey(DiscRepositories[1]), RepoKey(DiscRepositories[2])} |->
      IF key = RepoKey(DiscRepositories[1]) THEN p ELSE <<>>] : p \in TreesP}

\* the remote repositories change while no call is in flight
TreeChange ==
  /\ tasks = Empty
  /\ tree' \in RegTrees \ {tree}
  /\ UNCHANGED <<registryData, registries, loadedConfig, listCalls, tasks,
                 lastDiscover>>
  /\ RegUnchanged

\* the configurations of the runs: repository o/q is not enabled
RegConfigs == {cfg \in DiscConfigs : ~cfg.repositories[2].enabled}

\* runs with interleaved calls: o/p holds the longest of its lists of files
InitReg ==
  /\ enabled = TRUE
  /\ ttl = MinTtl
  /\ maxSize = MaxMaxSize
  /\ memoryCache = Empty
  /\ disk = Empty
  /\ now = T0
  /\ setLog = <<>>
  /\ onlySets = TRUE
  /\ lastCall = NoCall
  /\ calls = NoCalls
  /\ initialized = FALSE
  /\ remote = Empty
  /\ lastResolve = NoCall
  /\ discConfig \in RegConfigs
  /\ tree \in {t \in RegTrees : \A u \in RegTrees : Len(u[RepoKey(DiscRepositories[1])]) <= Len(t[RepoKey(DiscRepositories[1])])}
  /\ scans = Empty
  /\ registryData = Null
  /\ listCalls = 0
  /\ lastDiscover = NoCall
  /\ loadedConfig = Null
  /\ registries = <<>>
  /\ tasks = Empty

NextReg ==
  \/ CallGetRegistryData
  \/ CallRefresh
  \/ CallDiscoverRegistry
  \/ \E t \in Slots : TaskInitialize(t)
  \/ \E t \in Slots, key \in DOMAIN tree : TaskScanListed(t, key)
  \/ \E t \in Slots, key \in DOMAIN tree : TaskScanGroup(t, key)
  \/ \E t \in Slots : TaskJoin(t)
  \/ \E t \in Slots : TaskReturn(t)

RegSpec == InitReg /\ [][NextReg]_vars

InitRegSeq ==
  /\ enabled = TRUE
  /\ ttl = MinTtl
  /\ maxSize = MaxMaxSize
  /\ memoryCache = Empty
  /\ disk = Empty
  /\ now = T0
  /\ setLog = <<>>
  /\ onlySets = TRUE
  /\ lastCall = NoCall
  /\ calls = NoCalls
  /\ initialized = FALSE
  /\ remote = Empty
  /\ lastResolve = NoCall
  /\ discConfig \in RegConfigs
  /\ tree \in RegTrees
  /\ scans = Empty
  /\ registryData = Null
  /\ listCalls = 0
  /\ lastDiscover = NoCall
  /\ loadedConfig = Null
  /\ registries = <<>>
  /\ tasks = Empty

\* sequential runs: a call is made when no call is in flight
SeqGetRegistryData == tasks = Empty /\ CallGetRegistryData

SeqRefresh == tasks = Empty /\ CallRefresh

SeqDiscoverRegistry == tasks = Empty /\ CallDiscoverRegistry

NextRegSeq ==
  \/ SeqGetRegistryData
  \/ SeqRefresh
  \/ SeqDiscoverRegistry
  \/ \E t \in Slots : TaskInitialize(t)
  \/ \E t \in Slots, key \in DOMAIN tree : TaskScanListed(t, key)
  \/ \E t \in Slots, key \in DOMAIN tree : TaskScanGroup(t, key)
  \/ \E t \in Slots : TaskJoin(t)
  \/ \E t \in Slots : TaskReturn(t)
  \/ TreeChange

RegSeqSpec == InitRegSeq /\ [][NextRegSeq]_vars

----------------------------------------------------------------------------
(* The cache over a file system whose calls can fail *)

IoInput == [content |-> "c1", metadata |-> [sha |-> NoSha, lastCommitDate |-> NoDate]]

IoUnchanged == UNCHANGED <<enabled, ttl, maxSize, setLog, onlySets, calls, protoVars, discVars>>

TickIo ==
  /\ now < T0 + (MaxTicks * TickMs)
  /\ now' = now + TickMs
  /\ lastCall' = [op |-> "tick"]
  /\ UNCHANGED <<memoryCache, disk>>
  /\ IoUnchanged

\* what a call of the cache did
IoCall(op, key, fault, out, res) ==
  [op |-> op, key |-> key, fault |-> fault, failed |-> out.failed,
   raised |-> out.raised, res |-> res,
   onDisk |-> key \in DOMAIN disk /\ _isValidCacheItem(disk[key].item, now)]

SetIo(id, fault) ==
  /\ \E out \in setIO(memoryCache, disk, now, id.owner, id.repo, id.filePath,
                      id.branch, IoInput.content, IoInput.metadata, fault) :
       /\ memoryCache' = out.mem
       /\ disk' = out.disk
       /\ lastCall' = IoCall("set", KeyOf(id), fault, out, Null)
  /\ UNCHANGED now
  /\ IoUnchanged

GetIo(id, fault) ==
  /\ LET out == getIO(memoryCache, disk, now, KeyOf(id), fault)
     IN  /\ memoryCache' = out.mem
         /\ disk' = out.disk
         /\ lastCall' = IoCall("get", KeyOf(id), fault, out, out.res)
  /\ UNCHANGED now
  /\ IoUnchanged

DeleteIo(id, fault) ==
  /\ LET out == deleteIO(memoryCache, disk, KeyOf(id), fault)
     IN  /\ memoryCache' = out.mem
         /\ disk' = out.disk
         /\ lastCall' = IoCall("delete", KeyOf(id), fault, out, Null)
  /\ UNCHANGED now
  /\ IoUnchanged

ClearRepositoryIo(id, fault) ==
  /\ LET out == clearRepositoryIO(memoryCache, disk, id.owner, id.repo, <<>>, fault)
     IN  /\ memoryCache' = out.mem
         /\ disk' = out.disk
         /\ lastCall' = IoCall("clearRepository", <<>>, fault, out, Null)
  /\ UNCHANGED now
  /\ IoUnchanged

ClearIo(fault) ==
  /\ LET out == clearIO(memoryCache, disk, fault)
     IN  /\ memoryCache' = out.mem
         /\ disk' = out.disk
         /\ lastCall' = IoCall("clear", <<>>, fault, out, Null)
  /\ UNCHANGED now
  /\ IoUnchanged

\* a new GitHubCache over the same directory
RestartIo ==
  /\ memoryCache # Empty
  /\ memoryCache' = Empty
  /\ lastCall' = [op |-> "constructor"]
  /\ UNCHANGED <<disk, now>>
  /\ IoUnchanged

NextIo ==
  \/ TickIo
  \/ RestartIo
  \/ \E id \in CacheIds, fault \in IoFaults : SetIo(id, fault)
  \/ \E id \in CacheIds, fault \in IoFaults : GetIo(id, fault)
  \/ \E id \in CacheIds, fault \in IoFaults : DeleteIo(id, fault)
  \/ \E id \in CacheIds, fault \in IoFaults : ClearRepositoryIo(id, fault)
  \/ \E fault \in IoFaults : ClearIo(fault)

IoSpec == Init /\ [][NextIo]_vars

----------------------------------------------------------------------------
(* The cache over files that were damaged: a file of cacheDir can hold text
   that is no JSON (Unreadable), or JSON without expiresAt *)

\* the state of the file of a key, as a reader of the file finds it
FileState(dsk, t, key) ==
  IF key \notin DOMAIN dsk THEN "none"
  ELSE IF dsk[key].item = Unreadable THEN "unreadable"
  ELSE IF dsk[key].item.expiresAt = 0 THEN "malformed"
  ELSE IF t < dsk[key].item.expiresAt THEN "valid"
  ELSE "expired"

FileUnchanged == UNCHANGED <<enabled, ttl, maxSize, setLog, onlySets, calls, protoVars, discVars>>

\* the file of a key is overwritten from outside the cache, with text that
\* is no JSON or with JSON that lacks expiresAt
DamageFile(id, how) ==
  /\ KeyOf(id) \in DOMAIN disk
  /\ FileState(disk, now, KeyOf(id)) \in {"valid", "expired"}
  /\ disk' = [disk EXCEPT ![KeyOf(id)].item =
                IF how = "unreadable" THEN Unreadable ELSE [@ EXCEPT !.expiresAt = 0]]
  /\ lastCall' = [op |-> "damage"]
  /\ UNCHANGED <<memoryCache, now>>
  /\ FileUnchanged

TickFile ==
  /\ now < T0 + (MaxTicks * TickMs)
  /\ now' = now + TickMs
  /\ lastCall' = [op |-> "tick"]
  /\ UNCHANGED <<memoryCache, disk>>
  /\ FileUnchanged

SetFile(id) ==
  /\ \E out \in set(memoryCache, disk, now, id.owner, id.repo, id.filePath,
                    id.branch, IoInput.content, IoInput.metadata) :
       /\ memoryCache' = out.mem
       /\ disk' = out.disk
  /\ lastCall' = [op |-> "set"]
  /\ UNCHANGED now
  /\ FileUnchanged

\* get, with what it found: whether the memory index held a valid item and
\* the state of the file
GetFile(id) ==
  /\ LET g == get(memoryCache, disk, now, KeyOf(id))
     IN  /\ memoryCache' = g.mem
         /\ disk' = g.disk
         /\ lastCall' = [op |-> "get", key |-> KeyOf(id), res |-> g.res,
                         raised |-> FALSE,
                         inMemory |-> /\ KeyOf(id) \in DOMAIN memoryCache
                                      /\ _isValidCacheItem(memoryCache[KeyOf(id)], now),
                         file |-> FileState(disk, now, KeyOf(id))]
  /\ UNCHANGED now
  /\ FileUnchanged

\* a new GitHubCache over the same directory, and its initialize
InitializeFile ==
  /\ memoryCache' = Empty
  /\ disk' = IF enabled THEN _cleanupExpiredCache(disk, now) ELSE disk
  /\ lastCall' = [op |-> "initialize",
                  files |-> [k \in DOMAIN disk |-> FileState(disk, now, k)],
                  before |-> disk]
  /\ UNCHANGED now
  /\ FileUnchanged

NextFile ==
  \/ TickFile
  \/ \E id \in CacheIds, how \in {"unreadable", "malformed"} : DamageFile(id, how)
  \/ \E id \in CacheIds : SetFile(id)
  \/ \E id \in CacheIds : GetFile(id)
  \/ InitializeFile

FileSpec == Init /\ [][NextFile]_vars

----------------------------------------------------------------------------
(* Claims about the cache used sequentially *)

SameTuple(item, id) ==
  /\ item.owner = id.owner
  /\ item.repo = id.repo
  /\ item.filePath = id.filePath
  /\ item.branch = id.branch

\* C1: with the cache enabled, a get issued immediately after a set returns
\* an entry whose content and metadata are those of that set, whatever an
\* earlier set wrote for the key; after the set exactly one entry of the
\* memory index, and at most one file, belongs to the key, and each carries
\* the values of that set only.
C1_SetThenGet ==
  (enabled /\ lastCall.op = "set") =>
     LET id == lastCall.id
         inp == lastCall.inp
         g == get(memoryCache, disk, now, KeyOf(id))
         item == CacheItem(id.owner, id.repo, id.filePath, id.branch,
                           inp.content, inp.metadata, now)
     IN  /\ g.res # Null
         /\ g.res.content = inp.content
         /\ g.res.metadata = inp.metadata
         /\ g.res = item
         /\ {k \in DOMAIN memoryCache : SameTuple(memoryCache[k], id)}
              = {KeyOf(id)}
         /\ memoryCache[KeyOf(id)] = item
         /\ {k \in DOMAIN disk : SameTuple(disk[k].item, id)}
              \subseteq {KeyOf(id)}
         /\ KeyOf(id) \in DOMAIN disk => disk[KeyOf(id)].item = item

\* a key was set twice in a row with different values and get returns the
\* second write
C1_Witness ==
  /\ enabled
  /\ onlySets
  /\ Len(setLog) = 2
  /\ setLog[1] = setLog[2]
  /\ lastCall.op = "set"
  /\ lastCall.inp.content = "c2"
  /\ get(memoryCache, disk, now, setLog[2]).res # Null
  /\ get(memoryCache, disk, now, setLog[2]).res.content = "c2"
  /\ get(memoryCache, disk, now, setLog[2]).res.cachedAt > T0

\* C2: every stored entry has expiresAt = cachedAt + ttl (ttl seconds, in
\* milliseconds); get returns an entry only while now < expiresAt; a get of
\* a key whose stored entry has now >= expiresAt returns absent and leaves
\* the key neither in the memory index nor among the files.
C2_Expiry ==
  /\ \A k \in DOMAIN memoryCache :
       memoryCache[k].expiresAt = memoryCache[k].cachedAt + (ttl * 1000)
  /\ \A k \in DOMAIN disk :
       disk[k].item.expiresAt = disk[k].item.cachedAt + (ttl * 1000)
  /\ lastCall.op = "get" =>
       /\ lastCall.res # Null => now < lastCall.res.expiresAt
       /\ lastCall.expired =>
            /\ lastCall.res = Null
            /\ lastCall.key \notin DOMAIN memoryCache
            /\ lastCall.key \notin DOMAIN disk

\* a get has just found a stored entry expired, returned absent and removed it
C2_Witness ==
  /\ enabled
  /\ lastCall.op = "get"
  /\ lastCall.expired
  /\ lastCall.res = Null
  /\ lastCall.key \notin StoredKeys

\* C3: isValid returns false when the cache holds no entry for the key; for an
\* entry it holds, the result is (1) equality of the fingerprints when the
\* entry and the remote metadata both carry one, (2) otherwise, when both carry
\* a last-modification date, whether the entry's date is not older than the
\* remote one, (3) otherwise whether the entry is within its time to live.
C3_ThreeTier ==
  lastCall.op = "isValid" =>
     LET item == lastCall.held
         rm == lastCall.remoteMetadata
     IN  IF item = Null THEN lastCall.res = FALSE
         ELSE IF rm.sha # NoSha /\ item.sha # NoSha
              THEN lastCall.res = (rm.sha = item.sha)
         ELSE IF rm.lastCommitDate # NoDate /\ item.lastCommitDate # NoDate
              THEN lastCall.res = (item.lastCommitDate >= rm.lastCommitDate)
         ELSE lastCall.res = (lastCall.at < item.expiresAt)

\* C4: for an entry held with fingerprint sha-A, isValid is true with remote
\* fingerprint sha-A and false with remote fingerprint sha-B, whether or not
\* the entry's time to live has elapsed.
C4_FingerprintIgnoresTtl ==
  (/\ lastCall.op = "isValid"
   /\ lastCall.held # Null
   /\ lastCall.held.sha = "sha-A")
  => /\ lastCall.remoteMetadata.sha = "sha-A" => lastCall.res = TRUE
     /\ lastCall.remoteMetadata.sha = "sha-B" => lastCall.res = FALSE

AllDistinct(s) == \A i, j \in DOMAIN s : i # j => s[i] # s[j]

\* C5: after maxSize + k distinct keys (k >= 1) have been set one after the
\* other into an empty cache, the files are those of the maxSize keys written
\* last: exactly maxSize remain and the k written first are the ones removed.
C5_EvictsEarliestWritten ==
  (/\ enabled
   /\ onlySets
   /\ AllDistinct(setLog)
   /\ Len(setLog) > maxSize)
  => DOMAIN disk = {setLog[i] : i \in (Len(setLog) - maxSize + 1)..Len(setLog)}

----------------------------------------------------------------------------
(* Claims about resolve *)

\* the failures the fallback is documented for: connection refused, DNS
\* failure, timeout, reset (by error code) and 5xx (by status)
TransientFailure(error) ==
  \/ error.code \in {"ECONNREFUSED", "ENOTFOUND", "ETIMEDOUT", "ECONNRESET"}
  \/ error.status >= 500

ClientFailure(error) ==
  /\ error.code = ""
  /\ error.status \in 400..499

\* C7: when the content fetch fails with a transient failure and the cache
\* holds an entry for the identifier, expired or not, resolve returns the
\* content of that entry instead of raising.
C7_StaleFallback ==
  (/\ lastResolve.op = "resolve"
   /\ lastResolve.fetchError # Null
   /\ TransientFailure(lastResolve.fetchError)
   /\ lastResolve.held # Null)
  => /\ lastResolve.kind = "returned"
     /\ lastResolve.content = lastResolve.held.content

\* C8: a content-fetch failure with a 4xx status is raised to the caller even
\* when the cache holds an entry for the identifier, and a transient failure
\* is raised when the cache holds none.
C8_FailuresPropagate ==
  (lastResolve.op = "resolve" /\ lastResolve.fetchError # Null) =>
     /\ ClientFailure(lastResolve.fetchError) =>
          /\ lastResolve.kind = "raised"
          /\ lastResolve.error = lastResolve.fetchError
     /\ (TransientFailure(lastResolve.fetchError) /\ lastResolve.held = Null) =>
          /\ lastResolve.kind = "raised"
          /\ lastResolve.error = lastResolve.fetchError

\* a 404 of the content fetch was raised although the cache holds an unexpired
\* entry for the identifier
C8_Witness ==
  /\ lastResolve.op = "resolve"
  /\ lastResolve.held # Null
  /\ now < lastResolve.held.expiresAt
  /\ lastResolve.fetchError = NotFound
  /\ lastResolve.kind = "raised"
  /\ lastResolve.error = NotFound
  /\ lastResolve.key \in DOMAIN memoryCache

\* C9: when get finds an entry and isValid holds against the remote metadata,
\* resolve returns the content of the entry after exactly one getFileLastCommit
\* and no getFileContent, and the entry stays as it was written.
C9_HitPath ==
  (/\ lastResolve.op = "resolve"
   /\ lastResolve.cached
   /\ lastResolve.valid)
  => /\ lastResolve.kind = "returned"
     /\ lastResolve.held # Null
     /\ lastResolve.content = lastResolve.held.content
     /\ lastResolve.commitCalls = 1
     /\ lastResolve.contentCalls = 0
     /\ lastResolve.key \in DOMAIN memoryCache
     /\ memoryCache[lastResolve.key] = lastResolve.held
     /\ lastResolve.key \in DOMAIN disk =>
          disk[lastResolve.key].item = lastResolve.held

\* an entry written earlier was served from the cache after the remote file
\* had changed: the remote metadata call failed and the entry was in its time
\* to live
C9_Witness ==
  /\ lastResolve.op = "resolve"
  /\ lastResolve.cached
  /\ lastResolve.valid
  /\ lastResolve.via = "hit"
  /\ lastResolve.held.cachedAt < now
  /\ lastResolve.content = "v1"
  /\ \E f \in RemoteFiles : remote[f] = 2 /\ lastResolve.held.branch = f[1]
  /\ lastResolve.commitCalls = 1
  /\ lastResolve.contentCalls = 0

WriteThrough ==
  LET g == get(memoryCache, disk, now, lastResolve.key)
  IN  /\ lastResolve.kind = "returned"
      /\ lastResolve.content = lastResolve.fetched.content
      /\ lastResolve.contentCalls = 1
      /\ g.res # Null
      /\ g.res.content = lastResolve.fetched.content
      /\ g.res.sha = lastResolve.fetched.sha
      /\ g.res.lastCommitDate = lastResolve.fetched.lastCommitDate

\* C10: with the cache enabled, when get finds no entry or isValid is false
\* and the content fetch succeeds, resolve returns the fetched content, and a
\* get for the same owner, repository, file path and effective branch
\* immediately afterwards yields an entry with that content, the fetched
\* fingerprint and the fetched last-modification date.
C10_WriteThrough ==
  (/\ enabled
   /\ lastResolve.op = "resolve"
   /\ lastResolve.fetched # Null)
  => WriteThrough

\* an entry that isValid rejected was replaced by the newly fetched revision
C10_Witness ==
  /\ enabled
  /\ lastResolve.op = "resolve"
  /\ lastResolve.fetched # Null
  /\ lastResolve.cached
  /\ ~lastResolve.valid
  /\ lastResolve.held.content = "v1"
  /\ lastResolve.content = "v2"
  /\ memoryCache[lastResolve.key].content = "v2"
  /\ memoryCache[lastResolve.key].lastCommitDate = RevDate(2)

\* C10 as stated, whatever the cache configuration
C10_WriteThroughAlways ==
  (lastResolve.op = "resolve" /\ lastResolve.fetched # Null) => WriteThrough

----------------------------------------------------------------------------
(* Claims about identifiers *)

\* the first position of s that holds one of chars, 0 when there is none
FirstIn(s, chars) ==
  IF \E i \in DOMAIN s : s[i] \in chars
  THEN CHOOSE i \in DOMAIN s :
         s[i] \in chars /\ \A j \in 1..(i - 1) : s[j] \notin chars
  ELSE 0

After(s, i) == SubSeq(s, i + 1, Len(s))
Before(s, i) == SubSeq(s, 1, i - 1)

\* identifier := owner "/" repo ["@" branch] "/" path, read from the left:
\* the parts of s, empty where s has none
Grammar(s) ==
  LET i == FirstIn(s, {"/"})
      owner == IF i = 0 THEN s ELSE Before(s, i)
      rest == IF i = 0 THEN <<>> ELSE After(s, i)
      j == FirstIn(rest, {"/", "@"})
      repo == IF j = 0 THEN rest ELSE Before(rest, j)
      hasBranch == j # 0 /\ rest[j] = "@"
      tail == IF j = 0 THEN <<>> ELSE After(rest, j)
      k == FirstIn(tail, {"/"})
      branch == IF ~hasBranch THEN <<>>
                ELSE IF k = 0 THEN tail ELSE Before(tail, k)
      path == IF ~hasBranch THEN tail
              ELSE IF k = 0 THEN <<>> ELSE After(tail, k)
  IN  [slash |-> i # 0, owner |-> owner, repo |-> repo,
       hasBranch |-> hasBranch, branch |-> branch, path |-> path,
       ok |-> /\ i # 0
              /\ owner # <<>>
              /\ FirstIn(owner, {"@"}) = 0
              /\ repo # <<>>
              /\ hasBranch => branch # <<>>
              /\ path # <<>>
              /\ path[1] # "/"]

Parsed == lastCall.op \in {"parseGitHubPath", "parseUrl"}

\* C11: for every identifier of the form owner "/" repo ["@" branch] "/" path,
\* parseGitHubPath and parseUrl yield that owner and repo, repoKey = owner "/"
\* repo, the branch that follows repo (unset, or 'main' from parseUrl, when
\* there is none) and the whole remainder as filePath, also when the path has
\* several segments or holds an "@".
C11_Grammar ==
  (Parsed /\ Grammar(lastCall.path).ok) =>
     LET g == Grammar(lastCall.path)
         res == lastCall.res
     IN  /\ res.ok
         /\ res.owner = g.owner
         /\ res.repo = g.repo
         /\ res.repoKey = g.owner \o <<"/">> \o g.repo
         /\ res.branch = IF g.hasBranch THEN g.branch
                         ELSE IF lastCall.op = "parseUrl" THEN Main ELSE <<>>
         /\ res.filePath = g.path

\* C12: an identifier without "/", one with nothing after owner/repo or after
\* owner/repo@branch (with or without a closing "/"), and one with an empty
\* owner or repo, is rejected by the parsers.
C12_RejectsNoPath ==
  (/\ Parsed
   /\ LET g == Grammar(lastCall.path)
      IN  ~g.slash \/ g.owner = <<>> \/ g.repo = <<>> \/ g.path = <<>>)
  => ~lastCall.res.ok

----------------------------------------------------------------------------
(* Claims about the configuration lookup of resolve *)

\* the configured repositories of an owner and name
ConfigsOf(owner, name) ==
  {Repositories[i] : i \in {n \in DOMAIN Repositories :
                              /\ Repositories[n].owner = owner
                              /\ Repositories[n].name = name}}

\* resolve raised error at once: no remote call, nothing written to the cache
FailedAtOnce(error) ==
  /\ lastResolve.kind = "raised"
  /\ lastResolve.error = error
  /\ lastResolve.commitCalls = 0
  /\ lastResolve.contentCalls = 0
  /\ lastResolve.wrote = {}

\* C13: resolve raises InvalidIdentifier for a malformed identifier,
\* UnknownRepository when no repository is configured for its owner and repo,
\* RepositoryDisabled when the configured repository is disabled; in each
\* case no remote call is made and no cache entry is written.
C13_ConfigFailures ==
  lastResolve.op = "resolve" =>
     LET g == Grammar(lastResolve.path)
         configs == ConfigsOf(g.owner, g.repo)
     IN  /\ ~g.ok => FailedAtOnce(InvalidIdentifier)
         /\ (g.ok /\ configs = {}) => FailedAtOnce(UnknownRepository)
         /\ (g.ok /\ configs # {} /\ \A c \in configs : ~c.enabled)
              => FailedAtOnce(RepositoryDisabled)

\* C14: resolve derives the cache key from, and makes every remote call on,
\* the branch of the identifier if it has one, otherwise the branch of the
\* repository's configuration, otherwise 'main'.
C14_EffectiveBranch ==
  (/\ lastResolve.op = "resolve"
   /\ Grammar(lastResolve.path).ok
   /\ lastResolve.via # "config")
  => LET g == Grammar(lastResolve.path)
         config == CHOOSE c \in ConfigsOf(g.owner, g.repo) : TRUE
         effective == IF g.hasBranch THEN g.branch
                      ELSE IF config.branch # <<>> THEN config.branch
                      ELSE Main
     IN  /\ lastResolve.key =
              g.owner \o <<"/">> \o g.repo \o <<"@">> \o effective \o <<":">> \o g.path
         /\ lastResolve.commitCalls + lastResolve.contentCalls > 0
         /\ lastResolve.remoteBranches = {effective}
         /\ lastResolve.wrote \subseteq {lastResolve.key}

\* an identifier without a branch was fetched from, and cached under, the
\* branch d of the repository's configuration
C14_Witness ==
  /\ lastResolve.op = "resolve"
  /\ lastResolve.path = <<"o", "/", "r", "/", "a">>
  /\ lastResolve.via = "fetched"
  /\ lastResolve.remoteBranches = {<<"d">>}
  /\ lastResolve.key = <<"o", "/", "r", "@", "d", ":", "a">>
  /\ lastResolve.wrote = {lastResolve.key}
  /\ memoryCache[lastResolve.key].branch = <<"d">>

----------------------------------------------------------------------------
(* Claims about clearRepository *)

\* the entry is one that clearRepository(owner, repo, branch) is to remove
Cleared(item, owner, repo, branch) ==
  /\ item.owner = owner
  /\ item.repo = repo
  /\ branch # <<>> => item.branch = branch

----------------------------------------------------------------------------
(* Claims about the grouping and the processing of listed files *)

\* the path of a listed file relative to the role prefix
Relative(path) == SubSeq(path, Len(RolePrefix) + 1, Len(path))

\* str without its trailing suffix
StripTrailing(str, suffix) == SubSeq(str, 1, Len(str) - Len(suffix))

\* the role id that the grouping rule gives a relative path
RoleIdByRule(relativePath) ==
  LET parts == Split(relativePath, "/")
  IN  IF Len(parts) >= 2 THEN parts[1]
      ELSE IF EndsWith(parts[1], DotRoleMd) THEN StripTrailing(parts[1], DotRoleMd)
      ELSE StripTrailing(parts[1], DotMd)

\* the groups that hold the file of this path
GroupsOf(roleGroups, path) ==
  {g \in DOMAIN roleGroups :
     \E i \in DOMAIN roleGroups[g].files : roleGroups[g].files[i].fullPath = path}

\* the list [r/r.role.md, r/thought/r.thought.md, other/other.role.md,
\* r/ignored.txt], with a for r, b for other and png for txt
ExampleFiles ==
  <<RolePrefix \o <<"a", "/", "a", ".", "role", ".", "md">>,
    RolePrefix \o <<"a", "/", "thought", "/", "a", ".", "thought", ".", "md">>,
    RolePrefix \o <<"b", "/", "b", ".", "role", ".", "md">>,
    RolePrefix \o <<"a", "/", "ignored", ".", "png">>>>

ExampleGrouped(roleGroups) ==
  /\ Len(roleGroups) = 2
  /\ roleGroups[1].roleId = <<"a">>
  /\ Len(roleGroups[1].files) = 2
  /\ roleGroups[1].files[1].fullPath = ExampleFiles[1]
  /\ roleGroups[1].files[2].fullPath = ExampleFiles[2]
  /\ roleGroups[1].files[2].resourceType = "thought"
  /\ roleGroups[2].roleId = <<"b">>
  /\ Len(roleGroups[2].files) = 1
  /\ roleGroups[2].files[1].fullPath = ExampleFiles[3]

\* C18: _groupFilesByRole places every listed file whose name ends in .md
\* (every supported suffix does) in exactly one group, the group of its role
\* id: the first segment of the relative path when it has two or more
\* segments, otherwise the file name without its trailing .role.md or else
\* .md; a file that does not end in .md is in no group; and the example list
\* gives exactly the groups a (2 files, the thought file classified thought)
\* and b (1 file).
C18_Grouping ==
  lastCall.op = "_groupFilesByRole" =>
    /\ \A i \in DOMAIN lastCall.files :
         LET path == lastCall.files[i]
             groups == GroupsOf(lastCall.roleGroups, path)
         IN  IF EndsWith(Relative(path), DotMd)
             THEN /\ Cardinality(groups) = 1
                  /\ \A g \in groups :
                       lastCall.roleGroups[g].roleId = RoleIdByRule(Relative(path))
             ELSE groups = {}
    /\ lastCall.files = ExampleFiles => ExampleGrouped(lastCall.roleGroups)

\* the rule of the priority order that a file matches first, 6 when none
RuleOf(file, roleId) ==
  IF file.relativePath = roleId \o <<"/">> \o roleId \o DotRoleMd THEN 1
  ELSE IF file.relativePath = roleId \o DotRoleMd THEN 2
  ELSE IF IncludesStr(file.relativePath, roleId)
          /\ EndsWith(file.relativePath, DotRoleMd) THEN 3
  ELSE IF EndsWith(file.relativePath, DotRoleMd) THEN 4
  ELSE IF EndsWith(file.relativePath, DotMd) THEN 5
  ELSE 6

\* C19: the main file of a group is a file that matches the first rule, in
\* the order (i) {roleId}/{roleId}.role.md, (ii) {roleId}.role.md, (iii)
\* contains the role id and ends in .role.md, (iv) ends in .role.md, (v) ends
\* in .md, that any file of the group matches, wherever the files stand in
\* the list; when no file matches a rule there is no main file and
\* _processRoleGroup adds no resource.
C19_MainFilePriority ==
  lastCall.op \in {"_findMainRoleFile", "_processRoleGroup"} =>
    LET roleFiles == lastCall.roleFiles
        roleId == lastCall.roleId
    IN  /\ lastCall.main = 0 <=>
             \A i \in DOMAIN roleFiles : RuleOf(roleFiles[i], roleId) = 6
        /\ lastCall.main # 0 =>
             /\ lastCall.main \in DOMAIN roleFiles
             /\ \A i \in DOMAIN roleFiles :
                  RuleOf(roleFiles[lastCall.main], roleId) <= RuleOf(roleFiles[i], roleId)
        /\ (lastCall.op = "_processRoleGroup" /\ lastCall.main = 0) =>
             lastCall.added = <<>>

\* a group whose main file is listed after a file that matches a later rule
C19_Witness ==
  /\ lastCall.op = "_findMainRoleFile"
  /\ lastCall.main > 1
  /\ RuleOf(lastCall.roleFiles[lastCall.main], lastCall.roleId)
       < RuleOf(lastCall.roleFiles[1], lastCall.roleId)

\* the descriptors added for the file of this path
AddedFor(added, path) ==
  {k \in DOMAIN added : added[k].reference = Reference(DiscRepositories[1], path)}

\* C20: for a group with a main file, _processRoleGroup adds first one role
\* descriptor whose id is the role id, for the main file, and then exactly
\* one descriptor for each other file of the group that has a kind and none
\* for a file without a kind; every descriptor after the first has the kind
\* thought, execution or knowledge, and the main file has no second
\* descriptor.
C20_Emission ==
  (lastCall.op = "_processRoleGroup" /\ lastCall.main # 0) =>
    LET roleFiles == lastCall.roleFiles
        added == lastCall.added
    IN  /\ Len(added) >= 1
        /\ added[1].id = lastCall.roleId
        /\ added[1].protocol = "role"
        /\ AddedFor(added, roleFiles[lastCall.main].fullPath) = {1}
        /\ \A i \in DOMAIN roleFiles :
             i # lastCall.main =>
               Cardinality(AddedFor(added, roleFiles[i].fullPath))
                 = IF roleFiles[i].resourceType # "" THEN 1 ELSE 0
        /\ \A k \in DOMAIN added :
             /\ \E i \in DOMAIN roleFiles : k \in AddedFor(added, roleFiles[i].fullPath)
             /\ k > 1 => added[k].protocol \in {"thought", "execution", "knowledge"}

----------------------------------------------------------------------------
(* Claims about discoverRegistry *)

NoneEnabled ==
  \A i \in DOMAIN discConfig.repositories : ~discConfig.repositories[i].enabled

\* C16: when discovery is disabled or no repository is enabled,
\* discoverRegistry returns without raising a registry with the source set
\* and no resource, and discovery has made no call to the adapter.
C16_NothingToScan ==
  (lastDiscover.op = "discoverRegistry" /\ (~discConfig.enabled \/ NoneEnabled)) =>
    /\ ~lastDiscover.raised
    /\ lastDiscover.result.source = "github"
    /\ lastDiscover.result.resources = <<>>
    /\ listCalls = 0

\* discoverRegistry has returned with discovery enabled and no repository
\* enabled
C16_Witness ==
  /\ lastDiscover.op = "discoverRegistry"
  /\ discConfig.enabled
  /\ NoneEnabled
  /\ \E key \in DOMAIN tree : tree[key] # <<>>

\* the resources of a repository: what its groups give when all its files
\* are listed
RECURSIVE ResourcesFrom(_, _, _)
ResourcesFrom(repo, roleGroups, g) ==
  IF g > Len(roleGroups) THEN {}
  ELSE Range(_processRoleGroup(repo, roleGroups[g].roleId, roleGroups[g].files))
       \cup ResourcesFrom(repo, roleGroups, g + 1)

ResourcesOf(key) ==
  ResourcesFrom(RepoOf(key),
                _groupFilesByRole(getFilesRecursively(tree[key], {}),
                                  RepoOf(key).rolePrefix), 1)

\* C17: discoverRegistry returns without raising whatever listings failed,
\* and the registry it returns holds every resource of every enabled
\* repository whose own listing did not fail.
C17_FailureIsolation ==
  lastDiscover.op = "discoverRegistry" =>
    /\ ~lastDiscover.raised
    /\ \A key \in DOMAIN lastDiscover.scans :
         lastDiscover.scans[key].failed = {} =>
           ResourcesOf(key) \subseteq Range(lastDiscover.result.resources)

\* discoverRegistry has returned after the scan of one repository lost
\* resources to a failed listing while another repository gave all of its
C17_Witness ==
  /\ lastDiscover.op = "discoverRegistry"
  /\ \E key, other \in DOMAIN lastDiscover.scans :
       /\ lastDiscover.scans[key].failed # {}
       /\ ~(ResourcesOf(key) \subseteq Range(lastDiscover.result.resources))
       /\ lastDiscover.scans[other].failed = {}
       /\ ResourcesOf(other) # {}
       /\ ResourcesOf(other) \subseteq Range(lastDiscover.result.resources)

\* the resources of a registry that come from this repository
FromRepository(resources, key) ==
  {i \in DOMAIN resources :
     StartsWith(resources[i].reference, ProtocolPrefix \o key \o <<"@">>)}

\* C25: when the listing of a directory of a repository has failed during
\* its scan, the registry that discoverRegistry returns holds no resource of
\* that repository.
C25_FailedScanContributesNothing ==
  lastDiscover.op = "discoverRegistry" =>
    \A key \in DOMAIN lastDiscover.scans :
      lastDiscover.scans[key].failed # {} =>
        FromRepository(lastDiscover.result.resources, key) = {}

\* C27: the registry that discoverRegistry returns holds no two descriptors
\* with the same id.
C27_UniqueIds ==
  lastDiscover.op = "discoverRegistry" =>
    \A i, j \in DOMAIN lastDiscover.result.resources :
      i # j => lastDiscover.result.resources[i].id # lastDiscover.result.resources[j].id

\* parseGitHubPath gives this repository, its branch and this file
ParsesTo(reference, repo, path) ==
  LET parsed == parseGitHubPath(reference)
  IN  /\ parsed.ok
      /\ parsed.owner = repo.owner
      /\ parsed.repo = repo.name
      /\ parsed.branch = repo.branch
      /\ parsed.filePath = path

\* C26: the reference of every descriptor that discoverRegistry returns is
\* the reference of a file of a scanned repository, and parseGitHubPath
\* reads from it the owner, the name and the branch of that repository and
\* the full path of that file.
C26_ReferenceResolvable ==
  lastDiscover.op = "discoverRegistry" =>
    \A i \in DOMAIN lastDiscover.result.resources :
      \E key \in DOMAIN lastDiscover.scans :
        \E f \in DOMAIN tree[key] :
          /\ lastDiscover.result.resources[i].reference
               = Reference(RepoOf(key), tree[key][f])
          /\ ParsesTo(lastDiscover.result.resources[i].reference,
                      RepoOf(key), tree[key][f])

----------------------------------------------------------------------------
(* Claims about the recursive listing *)

\* C30: getFilesRecursively with maxDepth 5 ends after listing every
\* directory at most once, lists no directory more than 5 levels below the
\* role prefix and returns no file of a directory deeper than that; when no
\* listing fails it returns every .md file of the directories within the
\* bound.
C30_DepthBounded ==
  lastCall.op = "getFilesRecursively" =>
    /\ \A i \in DOMAIN lastCall.listed :
         /\ lastCall.listed[i] \in Dirs(lastCall.files)
         /\ Depth(lastCall.listed[i]) <= 5
         /\ \A j \in DOMAIN lastCall.listed : i # j => lastCall.listed[i] # lastCall.listed[j]
    /\ \A i \in DOMAIN lastCall.allFiles :
         /\ lastCall.allFiles[i] \in Range(lastCall.files)
         /\ Depth(lastCall.allFiles[i]) - 1 <= 5
    /\ lastCall.failed = {} =>
         \A i \in DOMAIN lastCall.files :
           Depth(lastCall.files[i]) - 1 <= 5 =>
             lastCall.files[i] \in Range(lastCall.allFiles)

\* a listing of a tree with files 5 and 6 directories below the prefix that
\* returned the first of them
C30_Witness ==
  /\ lastCall.op = "getFilesRecursively"
  /\ \E i, j \in DOMAIN lastCall.files :
       /\ Depth(lastCall.files[i]) - 1 = 5
       /\ Depth(lastCall.files[j]) - 1 = 6
       /\ lastCall.files[i] \in Range(lastCall.allFiles)

----------------------------------------------------------------------------
(* Claims about refreshCache *)

\* C24: the resolve call that follows refreshCache of the same identifier
\* does not return cached content (neither as a hit nor as a fallback): it
\* fetches the content, and what it returns is what it fetched.
C24_RefreshThenFetch ==
  (lastResolve.op = "resolve" /\ lastResolve.afterRefresh) =>
    /\ lastResolve.via \notin {"hit", "fallback"}
    /\ lastResolve.contentCalls = 1
    /\ lastResolve.kind = "returned" => lastResolve.via = "fetched"

----------------------------------------------------------------------------
(* Claims about the cache keys *)

SameParsed(p, q) ==
  /\ p.owner = q.owner
  /\ p.repo = q.repo
  /\ p.branch = q.branch
  /\ p.filePath = q.filePath

\* C23: two parsed identifiers that differ in owner, repo, branch or file
\* path (each with a file path) have different cache keys, and after a set
\* for one of them a get for the other finds no entry.
C23_DisjointKeys ==
  (/\ lastCall.op = "get"
   /\ lastCall.asked.filePath # <<>>
   /\ lastCall.stored.filePath # <<>>
   /\ ~SameParsed(lastCall.asked, lastCall.stored)) =>
    /\ _generateCacheKey(lastCall.asked.owner, lastCall.asked.repo,
                         lastCall.asked.filePath, lastCall.asked.branch)
         # _generateCacheKey(lastCall.stored.owner, lastCall.stored.repo,
                             lastCall.stored.filePath, lastCall.stored.branch)
    /\ lastCall.res = Null

----------------------------------------------------------------------------
(* Claims about the cache over a failing file system *)

IoOps == {"get", "set", "delete", "clearRepository", "clear"}

\* C22: get, set, delete, clearRepository and clear never raise, whatever
\* call of the file system fails during them, and a get during which a call
\* of the file system failed reports the entry as absent.
C22_StorageFailuresContained ==
  lastCall.op \in IoOps =>
    /\ ~lastCall.raised
    /\ (lastCall.op = "get" /\ lastCall.failed) => lastCall.res = Null

\* a get that found the file of an entry that was still valid and could
\* not read it
C22_Witness ==
  /\ lastCall.op = "get"
  /\ lastCall.failed
  /\ lastCall.fault = "read"
  /\ lastCall.onDisk

----------------------------------------------------------------------------
(* Claims about getRegistryData and refresh *)

\* C21: getRegistryData never raises, whatever the loading of the
\* configuration, the listings and the calls interleaved with it do: it
\* returns a registry, and that registry is empty when discoverRegistry gave
\* none or the configuration could not be loaded.
C21_GetRegistryDataNeverRaises ==
  lastDiscover.op = "getRegistryData" =>
    /\ ~lastDiscover.raised
    /\ lastDiscover.result # Null
    /\ lastDiscover.caught => lastDiscover.resources = <<>>
    /\ loadedConfig = _getDefaultConfig => lastDiscover.resources = <<>>

\* getRegistryData has returned through its catch: a refresh had set
\* this.registryData to null when discoverRegistry returned it
C21_Witness ==
  /\ lastDiscover.op = "getRegistryData"
  /\ lastDiscover.discovered
  /\ lastDiscover.caught
  /\ lastDiscover.result = Fresh

\* the resources that the enabled repositories give when these are their
\* files and every listing succeeds
ResourcesIn(files) ==
  UNION {ResourcesFrom(repo,
                       _groupFilesByRole(getFilesRecursively(files[RepoKey(repo)], {}),
                                         repo.rolePrefix), 1) :
           repo \in Range(ScannedRepositories(loadedConfig))}

\* C28: in a sequential run getRegistryData runs the discovery exactly when
\* no registry is held; otherwise it returns the registry held and lists
\* nothing; and the registry it returns after a refresh holds only
\* resources of the remote repositories as they were at the refresh.
C28_MemoizedUntilRefresh ==
  lastDiscover.op = "getRegistryData" =>
    /\ lastDiscover.discovered <=> lastDiscover.held = Null
    /\ lastDiscover.held # Null =>
         /\ lastDiscover.result = lastDiscover.held
         /\ lastDiscover.lists = 0
    /\ lastDiscover.prev.op = "refresh" =>
         Range(lastDiscover.resources) \subseteq ResourcesIn(lastDiscover.prev.tree)

\* getRegistryData has returned the registry that a refresh left, and the
\* registry that the refresh discarded held a resource that is gone
C28_Witness ==
  /\ lastDiscover.op = "getRegistryData"
  /\ lastDiscover.prev.op = "refresh"
  /\ ~lastDiscover.discovered
  /\ lastDiscover.resources # <<>>
  /\ \E i \in DOMAIN registries :
       /\ Ref(i) # lastDiscover.result
       /\ ~(Range(registries[i].resources) \subseteq Range(lastDiscover.resources))

\* C29: the registry that the last call of getRegistryData or of
\* discoverRegistry returned to its caller holds the resources it held when
\* it was returned, whatever calls run or are made afterwards.
C29_ImmutableSnapshot ==
  (lastDiscover.op \in {"getRegistryData", "discoverRegistry"}
   /\ lastDiscover.result # Null) =>
    ResourcesAt(lastDiscover.result) = lastDiscover.resources

----------------------------------------------------------------------------
(* Claims about damaged files *)

\* C31: when get finds no valid item in the memory index and the file of
\* the key cannot be read or lacks expiresAt, it returns null without
\* raising and the file is gone afterwards.
C31_CorruptRecordRemoved ==
  (/\ lastCall.op = "get"
   /\ enabled
   /\ ~lastCall.inMemory
   /\ lastCall.file \in {"unreadable", "malformed"}) =>
    /\ ~lastCall.raised
    /\ lastCall.res = Null
    /\ lastCall.key \notin DOMAIN disk

\* C32: after initialize on an enabled cache no file is left that was
\* expired, unreadable or without expiresAt when it ran, and every file
\* that held a valid item is left as it was.
C32_StartupSweep ==
  (lastCall.op = "initialize" /\ enabled) =>
    \A k \in DOMAIN lastCall.files :
      IF lastCall.files[k] = "valid"
      THEN k \in DOMAIN disk /\ disk[k] = lastCall.before[k]
      ELSE k \notin DOMAIN disk

\* initialize has run over an unreadable file and a valid one
C32_Witness ==
  /\ lastCall.op = "initialize"
  /\ enabled
  /\ \E k, j \in DOMAIN lastCall.files :
       lastCall.files[k] = "unreadable" /\ lastCall.files[j] = "valid"

----------------------------------------------------------------------------
(* Claims about concurrent writers of one key *)

\* C33: when the set calls made have all completed, the memory index and
\* the file of a key hold the same item, the whole item of one of the calls.
C33_LastWriteWins ==
  (\A c \in Callers : calls[c].pc = "idle") =>
    \A k \in DOMAIN memoryCache \cap DOMAIN disk : disk[k].item = memoryCache[k]

----------------------------------------------------------------------------
(* Claims about the two tiers after a set *)

\* C34: right after a set on an enabled cache every key that has a file is
\* in the memory index, also when the cache was started over files written
\* before.
C34_MemorySupersetOfFiles ==
  (lastCall.op = "set" /\ enabled) => DOMAIN disk \subseteq DOMAIN memoryCache

\* C35: right after a set on an enabled cache, its size enforcement done,
\* every key of the memory index has a file and the memory index holds at
\* most maxSize items.
C35_EvictionFromBothTiers ==
  (lastCall.op = "set" /\ enabled) =>
    /\ DOMAIN memoryCache \subseteq DOMAIN disk
    /\ Cardinality(DOMAIN memoryCache) <= maxSize

----------------------------------------------------------------------------
(* Claims about loadContent *)

\* C36: what loadContent("@github://" + X) does (the content returned or
\* the error raised, the remote calls and their branch, the memory index
\* and the files it leaves) is something resolve(X) does from the same
\* state.
C36_LoadContentAsResolve ==
  lastResolve.op = "loadContent" => lastResolve.out \in lastResolve.asResolve

----------------------------------------------------------------------------
(* Claims about interleaved resolve calls *)

\* C37: when resolve returns the content of the cached item because isValid
\* held, that content is the content of the item that isValid judged.
C37_ReturnsValidatedContent ==
  (lastResolve.op = "resolve" /\ lastResolve.via = "hit") =>
    lastResolve.content = lastResolve.examined.content

\* C38: the content and the date of the last commit that resolve writes
\* into one item are those of one revision of the remote file.
C38_ContentAndDateOfOneRevision ==
  (/\ lastResolve.op = "resolve"
   /\ lastResolve.via = "fetched"
   /\ lastResolve.fetched.lastCommitDate # NoDate) =>
    \E n \in 1..MaxRev :
      /\ lastResolve.fetched.content = RevContents[n]
      /\ lastResolve.fetched.lastCommitDate = RevDate(n)

----------------------------------------------------------------------------
(* Claims about overlapping discovery passes *)

\* C39: the registry that a discovery pass returns (from discoverRegistry,
\* or from getRegistryData when it discovers) holds each resource once,
\* holds nothing but resources of the enabled repositories, and holds all
\* of them when none of the pass's listings failed, whatever other passes
\* run at the same time.
C39_PassesDoNotMix ==
  (/\ lastDiscover.op \in {"discoverRegistry", "getRegistryData"}
   /\ lastDiscover.discovered
   /\ ~lastDiscover.caught) =>
    /\ lastDiscover.result # Null
    /\ \A i, j \in DOMAIN lastDiscover.resources :
         lastDiscover.resources[i] = lastDiscover.resources[j] => i = j
    /\ Range(lastDiscover.resources) \subseteq ResourcesIn(lastDiscover.tree)
    /\ lastDiscover.failed = {} =>
         ResourcesIn(lastDiscover.tree) \subseteq Range(lastDiscover.resources)

----------------------------------------------------------------------------
(* Claims about the role prefix *)

\* the role ids of roleGroups, and for each the paths of its files
Membership(roleGroups) ==
  {[roleId |-> roleGroups[g].roleId,
    files |-> {roleGroups[g].files[i].fullPath : i \in DOMAIN roleGroups[g].files}] :
     g \in DOMAIN roleGroups}

\* C40: grouping the listed files under a role prefix without the trailing
\* "/" yields the same role ids, with the same files in each group, as
\* grouping them under the prefix with the trailing "/".
C40_PrefixSlashIrrelevant ==
  lastCall.op = "_groupFilesByRole" =>
    Membership(lastCall.bare) = Membership(lastCall.roleGroups)

====
